---- MODULE Spec2Model ----
(***************************************************************************)
(* A model of the four-tier context engine:                                *)
(*   Tier 1  ActiveContextWindow      src/src/agents/tier1_active_context.py *)
(*   Tier 2  CompressedMemoryManager  src/tier2_compressed_memory.py       *)
(*   Tier 3  VectorRetrievalSystem    src/tier3_vector_retrieval.py        *)
(*   Tier 4  PersistentMemorySystem   src/src/agents/tier4_persistent_memory.py *)
(*   InfiniteContextOrchestrator      src/orchestrator.py                  *)
(*                                                                         *)
(* Conventions.  Floats in [0,1] are kept in hundredths (0.7 is 70);       *)
(* quotients are kept as fractions [num, den].  A text is a sequence of    *)
(* units (characters in Tier 1, words elsewhere), each one token:          *)
(* TokenCounter.count is length.                                           *)
(* Python's None is the empty sequence where a value is optional.          *)
(* Each tier has its own specification (SpecT1, ...) over the shared       *)
(* variables; Spec runs all of them together.                              *)
(***************************************************************************)
EXTENDS Integers, Sequences, FiniteSets, TLC

VARIABLES
    \* ---- Tier 1: ActiveContextWindow
    messages,                  \* deque[Message], oldest first
    key_points,                \* List[KeyPoint]
    system_message,            \* Optional[Message]: <<>> or <<msg>>
    current_tokens,            \* running token total of the window
    total_messages_processed,
    disk,                      \* the file at persistence_path: [exists, lines]
    loaded,                    \* load_from_disk has run (once, as at startup)
    left,                      \* history: the turns the last operation removed
    \* ---- Tier 4: PersistentMemorySystem / EntityMemoryGraph
    hashOf,                    \* hash(name) % 1000000 of this process, per name
    neo4j_driver,              \* whether self.neo4j_driver is set
    entities,                  \* Dict[str, Entity], in insertion order
    entity_by_name,            \* Dict[str, str]: lower-cased name -> entity_id
    extractions,               \* number of extract_and_store_entities calls
    upserts,                   \* history: the [name, context] of every add_entity
    relationships,             \* Dict[str, Relationship], in insertion order
    relationships_by_entity,   \* defaultdict(list): entity_id -> relationship ids
    connected,                 \* get_connected_entities last returned: <<>> or <<r>>
    \* ---- Tier 2: CompressedMemoryManager
    compressed_memories,       \* List[CompressedMemory]
    hierarchical_summaries,    \* List[HierarchicalSummary]
    tier2_current_tokens,      \* self.current_tokens of Tier 2
    total_compressed_items,
    clock,                     \* datetime.now(), counted in calls
    compressed,                \* compress_conversation last returned: <<>> or <<r>>
    \* ---- Tier 3: VectorRetrievalSystem
    documents,                 \* Dict[str, Document], in insertion order
    qdrant,                    \* whether self.qdrant is set
    points,                    \* the points of the Qdrant collection
    hybrid,                    \* _hybrid_retrieve last returned: <<>> or <<r>>
    cache,                     \* Dict[str, List[RetrievalResult]], by cache key
    total_retrievals,
    enable_caching,            \* config.enable_caching
    rerank_enabled,            \* config.rerank_enabled
    retrieved,                 \* the last call of retrieve: <<>> or <<r>>
    returned_lists,            \* the first list returned for each call
    user_preferences,          \* Dict[str, Any] of PersistentMemorySystem
    restored,                  \* the last snapshot round trip: <<>> or <<r>>
    \* ---- Orchestrator
    budget,                    \* the ContextBudget last returned: <<>> or <<b>>
    budget_request,            \* its [query, max_tokens]: <<>> or <<r>>
    total_queries,
    total_tokens_used,
    tier_usage_stats,          \* Dict[str, int] by tier
    generated,                 \* the last call of generate_context: <<>> or <<r>>
    \* ---- Calls recorded for the claims on Tier 4
    relevant,                  \* the last call of get_relevant_entities: <<>> or <<r>>
    extracted,                 \* the last call of extract_and_store_entities
    selected,                  \* the last call of get_relevant_memories
    \* ---- Orchestrator: process_message
    message_count,
    calls,                     \* the process_message calls: where each one is
    triggers,                  \* history: message_count at each _consolidate_memory
    processed                  \* the last call that ended: <<>> or <<r>>

vars1 == <<messages, key_points, system_message, current_tokens,
           total_messages_processed, disk, loaded, left>>

vars4 == <<hashOf, neo4j_driver, entities, entity_by_name, extractions,
           upserts>>

varsG == <<relationships, relationships_by_entity, connected>>

vars2 == <<compressed_memories, hierarchical_summaries, tier2_current_tokens,
           total_compressed_items, clock, compressed>>

vars3 == <<documents, qdrant, points, hybrid>>

varsR == <<cache, total_retrievals, enable_caching, rerank_enabled, retrieved,
          returned_lists>>

varsS == <<user_preferences, restored>>

varsO == <<budget, budget_request>>

varsC == <<total_queries, total_tokens_used, tier_usage_stats, generated>>

varsPM == <<message_count, calls, triggers, processed>>

varsP == <<relevant, extracted, selected, varsPM>>

vars == <<vars1, vars2, vars3, varsR, vars4, varsG, varsS, varsO, varsC,
          varsP>>

\* ------------------------------------------------------------------------
\* Bounds of the model
\* ------------------------------------------------------------------------

\* deque(maxlen=1000) of the window, scaled down so that the cap is reached.
maxlen == 3
\* tier_configs[ACTIVE].max_tokens (32000 by default), scaled with the texts.
Tier1MaxTokens == 4
\* content[:500] of a preserved key point, scaled with the texts.
KeyPointChars == 2
\* add_message calls of non-system turns in one run.
MaxProcessed == 5

\* ------------------------------------------------------------------------
\* Helpers
\* ------------------------------------------------------------------------

\* {} and the falsy None of an optional dict
EmptyMap == [k \in {} |-> 0]

Min(a, b) == IF a <= b THEN a ELSE b
Max(a, b) == IF a >= b THEN a ELSE b

\* s[:n] for n >= 0
Take(s, n) == SubSeq(s, 1, Min(n, Len(s)))
\* s[-n:] for n > 0
LastN(s, n) == SubSeq(s, Max(1, Len(s) - n + 1), Len(s))

\* str.lower() on the words of the model.
Lower(w) ==
    CASE w = "Alice" -> "alice"
      [] w = "Bob" -> "bob"
      [] w = "What" -> "what"
      [] OTHER -> w

\* name.lower() of a text given as its words.
LowerText(t) == [i \in 1..Len(t) |-> Lower(t[i])]

\* set(text.lower().split())
Terms(t) == {Lower(t[i]) : i \in 1..Len(t)}

RECURSIVE SumTokens(_)
SumTokens(s) == IF s = <<>> THEN 0 ELSE Head(s).tokens + SumTokens(Tail(s))

\* TokenCounter.count: one token per character of the text.
TokenCount(text) == Len(text)

\* The character "!" stands for one of the indicator phrases of
\* _extract_key_points ("important:", "note:", "decision:", ...).
HasIndicator(text) == \E i \in 1..Len(text) : text[i] = "!"

\* ------------------------------------------------------------------------
\* Tier 1: inputs
\* ------------------------------------------------------------------------

Roles == {"system", "user"}
Contents == { <<"a">>, <<"!", "b", "c", "d", "e">> }
SystemContents == { <<"s">> }
Importances == {50, 90}
\* keep_recent of clear_old_messages (5 by default), scaled with maxlen
KeepRecents == {0, 1, 2}
\* importance_score: float = 0.5, the default of add_message
DefaultImportance == 50

\* importance_score > 0.7 in _manage_window_size
EvictKeyPointThreshold == 70
\* importance_score > 0.6 in clear_old_messages
ClearKeyPointThreshold == 60
\* total_messages_processed % 5 and list(self.messages)[-5:]
ExtractInterval == 5
RecentCount == 5
\* relevance_score=0.8 of an "important" key point
IndicatorRelevance == 80

Message(role, content, importance_score) ==
    [role |-> role, content |-> content, tokens |-> TokenCount(content),
     importance_score |-> importance_score]

KeyPoint(content, idx, relevance, category) ==
    [content |-> content, source_message_idx |-> idx,
     relevance_score |-> relevance, category |-> category]

\* _extract_key_point_from_message
PreservedKeyPoint(message, position) ==
    KeyPoint(Take(message.content, KeyPointChars), position,
             message.importance_score, "preserved")

\* deque.append under maxlen: a full deque drops its head, silently.
DequeAppend(dq, m) ==
    IF Len(dq) >= maxlen THEN Append(Tail(dq), m) ELSE Append(dq, m)
DequeDropped(dq) ==
    IF Len(dq) >= maxlen THEN {Head(dq)} ELSE {}

\* Mutant of _manage_window_size: "if" for "while", at most one eviction.
ManageWindowSizeOnce(w) ==
    IF w.current_tokens > Tier1MaxTokens /\ Len(w.messages) > 1
    THEN LET removed == Head(w.messages)
             rest == Tail(w.messages)
         IN [messages |-> rest,
             current_tokens |-> w.current_tokens - removed.tokens,
             key_points |->
                IF removed.importance_score > EvictKeyPointThreshold
                THEN Append(w.key_points, PreservedKeyPoint(removed, Len(rest)))
                ELSE w.key_points,
             left |-> w.left \cup {removed}]
    ELSE w

\* _manage_window_size, as a loop over (messages, current_tokens, key_points)
RECURSIVE ManageWindowSize(_)
ManageWindowSize(w) ==
    IF w.current_tokens > Tier1MaxTokens /\ Len(w.messages) > 1
    THEN LET removed == Head(w.messages)
             rest == Tail(w.messages)
         IN ManageWindowSize(
              [messages |-> rest,
               current_tokens |-> w.current_tokens - removed.tokens,
               key_points |->
                  IF removed.importance_score > EvictKeyPointThreshold
                  THEN Append(w.key_points, PreservedKeyPoint(removed, Len(rest)))
                  ELSE w.key_points,
               left |-> w.left \cup {removed}])
    ELSE w

\* _extract_key_points: the last five turns, one key point per turn that
\* holds an indicator phrase.
RECURSIVE ExtractKeyPoints(_, _, _, _)
ExtractKeyPoints(recent, idx, n, kps) ==
    IF idx > Len(recent) THEN kps
    ELSE ExtractKeyPoints(recent, idx + 1, n,
            IF HasIndicator(recent[idx].content)
            THEN Append(kps, KeyPoint(recent[idx].content,
                                      n - Len(recent) + (idx - 1),
                                      IndicatorRelevance, "important"))
            ELSE kps)

\* _save_to_disk: the system message first, then the window.
SavedFile(sys, msgs) == [exists |-> TRUE, lines |-> sys \o msgs]

\* ------------------------------------------------------------------------
\* Tier 1: operations
\* ------------------------------------------------------------------------

InitT1 ==
    /\ messages = <<>>
    /\ key_points = <<>>
    /\ system_message = <<>>
    /\ current_tokens = 0
    /\ total_messages_processed = 0
    /\ disk = [exists |-> FALSE, lines |-> <<>>]
    /\ loaded = FALSE
    /\ left = {}

\* add_message with role "system": only the system message changes.
AddSystemMessage(content, importance_score) ==
    /\ system_message' = <<Message("system", content, importance_score)>>
    /\ left' = {}
    /\ UNCHANGED <<messages, key_points, current_tokens,
                   total_messages_processed, disk, loaded>>
    /\ UNCHANGED <<vars2, vars3, vars4, varsG, varsO, varsS, varsR, varsC, varsP>>

\* add_message with any other role, _save_to_disk included: the window,
\* the counters, the key points and the file after the call.
AddedMessage(role, content, importance_score) ==
    LET message == Message(role, content, importance_score)
        w == ManageWindowSize(
               [messages |-> DequeAppend(messages, message),
                current_tokens |-> current_tokens + message.tokens,
                key_points |-> key_points,
                left |-> DequeDropped(messages)])
        n == total_messages_processed + 1
        kps == IF n % ExtractInterval = 0
               THEN ExtractKeyPoints(LastN(w.messages, RecentCount), 1,
                                     Len(w.messages), w.key_points)
               ELSE w.key_points
    IN [messages |-> w.messages, current_tokens |-> w.current_tokens,
        key_points |-> kps, left |-> w.left, total_messages_processed |-> n,
        disk |-> SavedFile(system_message, w.messages), message |-> message]

AddMessage(role, content, importance_score) ==
    /\ role # "system"
    /\ total_messages_processed < MaxProcessed
    /\ LET a == AddedMessage(role, content, importance_score)
       IN /\ messages' = a.messages
          /\ current_tokens' = a.current_tokens
          /\ key_points' = a.key_points
          /\ left' = a.left
          /\ total_messages_processed' = a.total_messages_processed
          /\ disk' = a.disk
    /\ UNCHANGED <<system_message, loaded>>
    /\ UNCHANGED <<vars2, vars3, vars4, varsG, varsO, varsS, varsR, varsC, varsP>>

\* clear_old_messages(keep_recent).  list[:-0] is empty and list[-0:] is the
\* whole list, so keep_recent = 0 removes nothing.
RECURSIVE ClearKeyPoints(_, _, _)
ClearKeyPoints(to_remove, idx, kps) ==
    IF idx > Len(to_remove) THEN kps
    ELSE ClearKeyPoints(to_remove, idx + 1,
            IF to_remove[idx].importance_score > ClearKeyPointThreshold
            THEN Append(kps, PreservedKeyPoint(to_remove[idx], idx - 1))
            ELSE kps)

ClearOldMessages(keep_recent) ==
    /\ Len(messages) > keep_recent
    /\ LET to_remove == IF keep_recent = 0 THEN <<>>
                        ELSE SubSeq(messages, 1, Len(messages) - keep_recent)
           recent == IF keep_recent = 0 THEN messages
                     ELSE LastN(messages, keep_recent)
       IN /\ key_points' = ClearKeyPoints(to_remove, 1, key_points)
          /\ messages' = recent
          /\ current_tokens' = SumTokens(recent)
          /\ left' = {to_remove[i] : i \in 1..Len(to_remove)}
    /\ UNCHANGED <<system_message, total_messages_processed, disk, loaded>>
    /\ UNCHANGED <<vars2, vars3, vars4, varsG, varsO, varsS, varsR, varsC, varsP>>

\* load_from_disk: every line of the file is appended to the window.  The
\* program calls it once (src/src/api/main.py, startup_event); the model lets
\* that one call happen at any moment.
RECURSIVE LoadLines(_, _)
LoadLines(lines, w) ==
    IF lines = <<>> THEN w
    ELSE LET msg == Head(lines)
         IN LoadLines(Tail(lines),
              IF msg.role = "system"
              THEN [w EXCEPT !.system_message = <<msg>>]
              ELSE [w EXCEPT !.messages = DequeAppend(w.messages, msg),
                             !.current_tokens = w.current_tokens + msg.tokens,
                             !.left = w.left \cup DequeDropped(w.messages)])

LoadFromDisk ==
    /\ ~loaded
    /\ disk.exists
    /\ LET w == LoadLines(disk.lines,
                  [messages |-> messages, current_tokens |-> current_tokens,
                   system_message |-> system_message, left |-> {}])
       IN /\ messages' = w.messages
          /\ current_tokens' = w.current_tokens
          /\ system_message' = w.system_message
          /\ left' = w.left
    /\ loaded' = TRUE
    /\ UNCHANGED <<key_points, total_messages_processed, disk>>
    /\ UNCHANGED <<vars2, vars3, vars4, varsG, varsO, varsS, varsR, varsC, varsP>>

\* A step of add_message for a non-system turn.
AddMessageStep ==
    \E r \in Roles, c \in Contents, i \in Importances : AddMessage(r, c, i)

\* The roles the docstring of add_message names, and the roles callers pass.
ValidRoles == {"system", "user", "assistant"}
CallerRoles == {"user", "assistant", "tool"}

\* Turns of any role, with the system message and a reload.
NextRoles ==
    \/ \E c \in SystemContents : AddSystemMessage(c, DefaultImportance)
    \/ \E r \in CallerRoles : AddMessage(r, <<"a">>, DefaultImportance)
    \/ ClearOldMessages(1)
    \/ LoadFromDisk

NextT1 ==
    \/ \E c \in SystemContents : AddSystemMessage(c, DefaultImportance)
    \/ \E r \in Roles, c \in Contents, i \in Importances :
          AddMessage(r, c, i)
    \/ \E k \in KeepRecents : ClearOldMessages(k)
    \/ LoadFromDisk

\* ------------------------------------------------------------------------
\* Tier 1: claims
\* ------------------------------------------------------------------------

\* C1 (as stated): after every add_message the running token total
\* current_tokens is at most max_tokens.
C1_AlwaysWithinBudget ==
    [][AddMessageStep => current_tokens' <= Tier1MaxTokens]_vars

\* C1 (amended): after every add_message either current_tokens is at most
\* max_tokens or the window holds exactly one turn (eviction always keeps the
\* newest turn, even when it alone exceeds the budget).
C1_WithinBudgetOrSingleTurn ==
    [][AddMessageStep =>
         (current_tokens' <= Tier1MaxTokens \/ Len(messages') = 1)]_vars

\* C1 witness: an add_message has evicted turns down to the budget, and
\* another has left a single turn that alone exceeds it.
C1_Witness ==
    /\ total_messages_processed >= 2
    /\ current_tokens > Tier1MaxTokens
    /\ Len(messages) = 1
    /\ left # {}

\* C3: every turn with importance > 0.7 that has left the window (by eviction,
\* by clear_old_messages or by the cap of the deque) has a key point of
\* category "preserved" holding the first KeyPointChars characters of it.
C3_ImportantTurnsPreserved ==
    \A m \in left :
        m.importance_score > EvictKeyPointThreshold =>
            \E i \in 1..Len(key_points) :
                /\ key_points[i].category = "preserved"
                /\ key_points[i].content = Take(m.content, KeyPointChars)

\* C4: current_tokens equals the sum of the token counts of the turns in the
\* window.
C4_CounterEqualsSum == current_tokens = SumTokens(messages)

\* C18: add_message with a role outside {system, user, assistant} is
\* rejected and leaves the window as it was: the call appends no turn and
\* does not count one, so no turn of the window has such a role.
C18_InvalidRoleRejected ==
    \A i \in 1..Len(messages) : messages[i].role \in ValidRoles

\* t is a contiguous suffix of s.
IsSuffix(t, s) ==
    /\ Len(t) <= Len(s)
    /\ t = SubSeq(s, Len(s) - Len(t) + 1, Len(s))

\* The turns a load_from_disk appends to the window: every line of the
\* file but the system message.
NonSystemLines(lines) == SelectSeq(lines, LAMBDA m : m.role # "system")

\* C31: the window is always a contiguous suffix, in arrival order, of the
\* turns appended so far: every step leaves a suffix of the window it found
\* followed by the turns it appended.  After add_message of a non-system
\* turn the window is non-empty and ends with that turn, and the eviction
\* of that call has removed turns from the head only and has stopped as
\* soon as current_tokens <= max_tokens or one turn remained.
C31_WindowIsSuffixOfTurns ==
    [][/\ \A r \in Roles, c \in Contents, i \in Importances :
             AddMessage(r, c, i) =>
                LET m == Message(r, c, i)
                    appended == DequeAppend(messages, m)
                    evicted == Len(appended) - Len(messages')
                IN /\ messages' # <<>>
                   /\ messages'[Len(messages')] = m
                   /\ IsSuffix(appended, Append(messages, m))
                   /\ IsSuffix(messages', appended)
                   /\ current_tokens' <= Tier1MaxTokens \/ Len(messages') = 1
                   /\ evicted > 0 =>
                         current_tokens' + appended[evicted].tokens
                            > Tier1MaxTokens
       /\ LoadFromDisk =>
             IsSuffix(messages', messages \o NonSystemLines(disk.lines))
       /\ ~(\E r \in Roles, c \in Contents, i \in Importances :
               AddMessage(r, c, i)) /\ ~LoadFromDisk =>
             IsSuffix(messages', messages)]_vars

\* C31 witness: an add_message has evicted from the head and has stopped
\* at the budget with more than one turn left.
C31_Witness ==
    /\ left # {}
    /\ Len(messages) >= 2
    /\ Len(messages) < maxlen
    /\ current_tokens = Tier1MaxTokens

\* Importance scores on both sides of the two cutoffs, 0.6 and 0.7.
CutoffImportances == {50, 65, 90}

\* Turns of any importance entering the window, and clear_old_messages.
NextCutoffs ==
    \/ \E c \in Contents, i \in CutoffImportances : AddMessage("user", c, i)
    \/ \E k \in KeepRecents : ClearOldMessages(k)

\* The key points written for turns that left the window.
PreservedPoints(kps) == SelectSeq(kps, LAMBDA k : k.category = "preserved")

\* C32: a turn with importance at or below 0.7 that is removed from the
\* window, by eviction or by clear_old_messages, leaves no residue: a step
\* that removes only such turns writes no key point for them.
C32_NoResidueBelowCutoff ==
    [][(left' # {} /\ \A m \in left' :
            m.importance_score <= EvictKeyPointThreshold) =>
          PreservedPoints(key_points') = PreservedPoints(key_points)]_vars

\* ------------------------------------------------------------------------
\* Tier 2: CompressedMemoryManager
\* ------------------------------------------------------------------------

\* tier_configs[COMPRESSED].max_tokens (50000 by default), scaled with the
\* texts so that one summary can exceed it.
Tier2MaxTokens == 6
\* compression_levels.get(target_level, 500): the default, scaled.
DefaultTargetTokens == 4
\* compress_conversation calls that create a memory in one run.
MaxCompressions == 6

\* Mutant of compression_levels: the targets in descending order.
DescendingLevels == <<8, 4, 2>>

\* self.compression_levels {1: 100, 2: 500, 3: 2000}, scaled with the texts.
compression_levels == <<2, 4, 8>>

\* A text of Tier 2 is a sequence of units, each one token: words, the
\* separators ". " and "\n\n", the closing "." and the "Role:" prefixes.
\* The keywords of _extractive_compress a unit holds as a substring of its
\* lower case.
CompressKeywordsIn(unit) ==
    CASE unit = "important" -> {"important"}
      [] unit = "keynote" -> {"key", "note"}
      [] OTHER -> {}

\* role.capitalize() followed by ":"
RolePrefix(role) ==
    CASE role = "user" -> "User:"
      [] role = "assistant" -> "Assistant:"
      [] OTHER -> "Unknown:"

\* The message lists handed to compress_conversation: none, a short user
\* turn, a two-sentence assistant turn followed by a user turn, and a longer
\* user turn.
MessageLists ==
    { <<>>,
      <<[role |-> "user", content |-> <<"fine">>, importance_score |-> 50]>>,
      <<[role |-> "assistant",
         content |-> <<"fine", ". ", "keynote", "fine">>,
         importance_score |-> 90],
        [role |-> "user", content |-> <<"important">>,
         importance_score |-> 50]>>,
      <<[role |-> "user", content |-> <<"fine", "fine", "fine">>,
         importance_score |-> 90]>> }

TargetLevels == {1, 2, 3, 4}

\* _format_messages: "Role: content" joined by "\n\n"
RECURSIVE FormatMessages(_)
FormatMessages(msgs) ==
    IF msgs = <<>> THEN <<>>
    ELSE <<RolePrefix(Head(msgs).role)>> \o Head(msgs).content
            \o (IF Tail(msgs) = <<>> THEN <<>>
                ELSE <<"\n\n">> \o FormatMessages(Tail(msgs)))

\* text.split('. '): acc is the sentence being read.
RECURSIVE SplitSentences(_, _)
SplitSentences(text, acc) ==
    IF text = <<>> THEN <<acc>>
    ELSE IF Head(text) = ". "
         THEN <<acc>> \o SplitSentences(Tail(text), <<>>)
         ELSE SplitSentences(Tail(text), Append(acc, Head(text)))

\* The score of one sentence: the keywords it holds, and 2 more when it
\* starts with 'User:' or 'user:'.
SentenceScore(sent) ==
    Cardinality(UNION {CompressKeywordsIn(sent[i]) : i \in 1..Len(sent)})
        + (IF sent # <<>> /\ Head(sent) \in {"User:", "user:"} THEN 2 ELSE 0)

\* s without its i-th element
RemoveAt(s, i) == SubSeq(s, 1, i - 1) \o SubSeq(s, i + 1, Len(s))

\* sorted(scored, key=score, reverse=True): stable.
RECURSIVE SortByScore(_)
SortByScore(sents) ==
    IF sents = <<>> THEN <<>>
    ELSE LET best == CHOOSE i \in 1..Len(sents) :
                        /\ \A j \in 1..Len(sents) :
                              SentenceScore(sents[j]) <= SentenceScore(sents[i])
                        /\ \A j \in 1..(i - 1) :
                              SentenceScore(sents[j]) < SentenceScore(sents[i])
         IN <<sents[best]>> \o SortByScore(RemoveAt(sents, best))

\* The selection loop of _extractive_compress: sentences are taken in
\* sorted order until one does not fit.
RECURSIVE SelectSentences(_, _, _)
SelectSentences(sorted, used, target_tokens) ==
    IF sorted = <<>> THEN <<>>
    ELSE IF used + Len(Head(sorted)) <= target_tokens
         THEN <<Head(sorted)>>
                \o SelectSentences(Tail(sorted), used + Len(Head(sorted)),
                                   target_tokens)
         ELSE <<>>

\* '. '.join(sents)
RECURSIVE JoinSentences(_)
JoinSentences(sents) ==
    IF sents = <<>> THEN <<>>
    ELSE Head(sents) \o (IF Tail(sents) = <<>> THEN <<>>
                         ELSE <<". ">> \o JoinSentences(Tail(sents)))

\* _extractive_compress
ExtractiveCompress(text, target_tokens) ==
    JoinSentences(SelectSentences(SortByScore(SplitSentences(text, <<>>)),
                                  0, target_tokens)) \o <<".">>

\* _llm_compress: the placeholder calls _extractive_compress.
LlmCompress(text, target_tokens) == ExtractiveCompress(text, target_tokens)

\* _calculate_importance: the average weighted by position, kept as the
\* fraction weighted_sum / weight_total of hundredths.
RECURSIVE WeightedSum(_, _)
WeightedSum(msgs, i) ==
    IF i > Len(msgs) THEN 0
    ELSE msgs[i].importance_score * i + WeightedSum(msgs, i + 1)

CalculateImportance(msgs) ==
    [num |-> WeightedSum(msgs, 1), den |-> (Len(msgs) * (Len(msgs) + 1)) \div 2]

\* The sort key (importance_score, timestamp) of a is below that of b.
KeyBelow(a, b) ==
    \/ a.importance_score.num * b.importance_score.den
            < b.importance_score.num * a.importance_score.den
    \/ /\ a.importance_score.num * b.importance_score.den
            = b.importance_score.num * a.importance_score.den
       /\ a.timestamp < b.timestamp

\* Mutant of _manage_storage: the oldest memory, whatever its importance.
OldestMemory(mems) == mems[1]

\* sorted(compressed_memories, key=...)[0]: the first memory of the list
\* no other is below.
LeastMemory(mems) ==
    mems[CHOOSE i \in 1..Len(mems) :
            /\ \A j \in 1..Len(mems) : ~KeyBelow(mems[j], mems[i])
            /\ \A j \in 1..(i - 1) : KeyBelow(mems[i], mems[j])]

\* list.remove(x): without the first element equal to x.
ListRemove(s, x) == RemoveAt(s, CHOOSE i \in 1..Len(s) :
                                    s[i] = x /\ \A j \in 1..(i - 1) : s[j] # x)

\* Mutant of _manage_storage: "if" in place of "while".
ManageStorageOnce(t) ==
    IF t.current_tokens > Tier2MaxTokens /\ t.compressed_memories # <<>>
    THEN LET removed == LeastMemory(t.compressed_memories)
         IN [compressed_memories |-> ListRemove(t.compressed_memories, removed),
             current_tokens |-> t.current_tokens - removed.token_count]
    ELSE t

\* _manage_storage on t = [compressed_memories, current_tokens]
RECURSIVE ManageStorage(_)
ManageStorage(t) ==
    IF t.current_tokens > Tier2MaxTokens /\ t.compressed_memories # <<>>
    THEN LET removed == LeastMemory(t.compressed_memories)
         IN ManageStorage(
                [compressed_memories |-> ListRemove(t.compressed_memories, removed),
                 current_tokens |-> t.current_tokens - removed.token_count])
    ELSE t

InitT2 ==
    /\ compressed_memories = <<>>
    /\ hierarchical_summaries = <<>>
    /\ tier2_current_tokens = 0
    /\ total_compressed_items = 0
    /\ clock = 0
    /\ compressed = <<>>

\* compress_conversation(messages, target_level, use_llm).  time_range and
\* compression_ratio, which nothing of Tier 2 reads back, are left out.
CompressConversation(msgs, target_level, use_llm) ==
    /\ IF msgs = <<>>
       THEN /\ compressed' = <<[message_count |-> 0, returned |-> <<>>]>>
            /\ UNCHANGED <<compressed_memories, tier2_current_tokens,
                           total_compressed_items, clock>>
       ELSE /\ clock < MaxCompressions
            /\ LET conversation_text == FormatMessages(msgs)
                   target_tokens ==
                       IF target_level \in DOMAIN compression_levels
                       THEN compression_levels[target_level]
                       ELSE DefaultTargetTokens
                   summary == IF use_llm
                              THEN LlmCompress(conversation_text, target_tokens)
                              ELSE ExtractiveCompress(conversation_text,
                                                      target_tokens)
                   memory == [summary |-> summary,
                              token_count |-> Len(summary),
                              original_message_count |-> Len(msgs),
                              timestamp |-> clock + 1,
                              importance_score |-> CalculateImportance(msgs)]
                   t == ManageStorage(
                            [compressed_memories |->
                                 Append(compressed_memories, memory),
                             current_tokens |->
                                 tier2_current_tokens + memory.token_count])
               IN /\ compressed_memories' = t.compressed_memories
                  /\ tier2_current_tokens' = t.current_tokens
                  /\ compressed' = <<[message_count |-> Len(msgs),
                                      returned |-> <<memory>>]>>
            /\ total_compressed_items' = total_compressed_items + 1
            /\ clock' = clock + 1
    /\ UNCHANGED hierarchical_summaries
    /\ UNCHANGED <<vars1, vars3, vars4, varsG, varsO, varsS, varsR, varsC, varsP>>

\* The HierarchicalSummary create_hierarchical_summary builds: one
\* CompressedMemory per compression level, each of the whole conversation.
HierarchicalSummary(msgs, use_llm, now) ==
    LET conversation_text == FormatMessages(msgs)
    IN [original_content |-> conversation_text,
        levels |->
           [level \in DOMAIN compression_levels |->
               LET compressed_text ==
                       IF use_llm
                       THEN LlmCompress(conversation_text,
                                        compression_levels[level])
                       ELSE ExtractiveCompress(conversation_text,
                                               compression_levels[level])
               IN [summary |-> compressed_text,
                   token_count |-> TokenCount(compressed_text),
                   original_message_count |-> Len(msgs),
                   timestamp |-> now,
                   importance_score |-> CalculateImportance(msgs)]]]

\* create_hierarchical_summary(messages, use_llm).  messages[0] of an empty
\* list raises IndexError before anything is stored.  The summary is
\* appended to hierarchical_summaries; compressed_memories, current_tokens
\* and total_compressed_items are not touched and _manage_storage is not
\* called.
CreateHierarchicalSummary(msgs, use_llm) ==
    /\ clock < MaxCompressions
    /\ IF msgs = <<>>
       THEN UNCHANGED <<hierarchical_summaries, clock>>
       ELSE /\ hierarchical_summaries' =
                 Append(hierarchical_summaries,
                        HierarchicalSummary(msgs, use_llm, clock + 1))
            /\ clock' = clock + 1
    /\ compressed' = <<>>
    /\ UNCHANGED <<compressed_memories, tier2_current_tokens,
                   total_compressed_items>>
    /\ UNCHANGED <<vars1, vars3, vars4, varsG, varsO, varsS, varsR, varsC, varsP>>

\* Tier 2 with both ways of compressing.
NextSummaries ==
    \/ \E msgs \in MessageLists, level \in {1, 2} :
          CompressConversation(msgs, level, TRUE)
    \/ \E msgs \in MessageLists, use_llm \in BOOLEAN :
          CreateHierarchicalSummary(msgs, use_llm)

NextT2 ==
    \E msgs \in MessageLists, level \in TargetLevels, use_llm \in BOOLEAN :
        CompressConversation(msgs, level, use_llm)

\* ------------------------------------------------------------------------
\* Tier 2: claims
\* ------------------------------------------------------------------------

\* C5: after every compress_conversation call returns, Tier 2's
\* current_tokens is at most max_tokens, and the write is never rejected: a
\* call with messages returns the memory it created and counts it, even when
\* that memory alone exceeds the budget.
C5_WithinBudgetNeverRejected ==
    /\ tier2_current_tokens <= Tier2MaxTokens
    /\ compressed # <<>> /\ compressed[1].message_count > 0 =>
          /\ compressed[1].returned # <<>>
          /\ compressed[1].returned[1].timestamp = total_compressed_items
          /\ compressed[1].returned[1].original_message_count
                = compressed[1].message_count

\* C5 witness: a call returned a memory that alone exceeds the budget while
\* older memories were held; the counter is within the budget afterwards.
C5_Witness ==
    /\ compressed # <<>>
    /\ compressed[1].returned # <<>>
    /\ compressed[1].returned[1].token_count > Tier2MaxTokens
    /\ total_compressed_items >= 3
    /\ compressed_memories # <<>>
    /\ tier2_current_tokens <= Tier2MaxTokens

\* The token counts of every CompressedMemory a list of summaries holds.
RECURSIVE SumLevels(_)
SumLevels(summaries) ==
    IF summaries = <<>> THEN 0
    ELSE LET levels == Head(summaries).levels
         IN levels[1].token_count + levels[2].token_count
               + levels[3].token_count + SumLevels(Tail(summaries))

RECURSIVE SumTokenCounts(_)
SumTokenCounts(mems) ==
    IF mems = <<>> THEN 0
    ELSE Head(mems).token_count + SumTokenCounts(Tail(mems))

\* C30: Tier 2's current_tokens equals the sum of the token counts of every
\* CompressedMemory the tier holds, in the flat list and in the levels of
\* the hierarchical summaries.
C30_CounterCoversEveryMemory ==
    tier2_current_tokens =
        SumTokenCounts(compressed_memories) + SumLevels(hierarchical_summaries)

\* An eviction that takes held, counted as tokens, to final: while the count
\* is above the budget and a memory is held, one memory of minimum
\* (importance_score, timestamp) is removed; it ends as soon as the count is
\* within the budget.
RECURSIVE EvictsLeast(_, _, _, _)
EvictsLeast(held, tokens, final, final_tokens) ==
    IF tokens <= Tier2MaxTokens \/ held = <<>>
    THEN held = final /\ tokens = final_tokens
    ELSE \E i \in 1..Len(held) :
            /\ \A j \in 1..Len(held) : ~KeyBelow(held[j], held[i])
            /\ EvictsLeast(RemoveAt(held, i), tokens - held[i].token_count,
                           final, final_tokens)

\* C33: whenever Tier 2 evicts, each memory removed has the minimum
\* (importance_score, timestamp) among the memories held at that moment,
\* one memory is removed per step, and eviction stops as soon as
\* current_tokens <= max_tokens: the list and the counter a
\* compress_conversation leaves are the end of such an eviction, started
\* from the list with the new memory appended.
C33_EvictsLeastUntilWithinBudget ==
    [][\A msgs \in MessageLists, level \in TargetLevels, use_llm \in BOOLEAN :
          msgs # <<>> /\ CompressConversation(msgs, level, use_llm) =>
             LET memory == compressed'[1].returned[1]
             IN EvictsLeast(Append(compressed_memories, memory),
                            tier2_current_tokens + memory.token_count,
                            compressed_memories', tier2_current_tokens')]_vars

\* C33 witness: a call has evicted an older memory and has kept, within the
\* budget, an older one and the memory it created.
C33_Witness ==
    /\ compressed # <<>>
    /\ compressed[1].returned # <<>>
    /\ Len(compressed_memories) = 2
    /\ total_compressed_items = 3
    /\ compressed_memories[2] = compressed[1].returned[1]
    /\ compressed_memories[1].timestamp = 2

\* ------------------------------------------------------------------------
\* Tier 3: VectorRetrievalSystem
\* ------------------------------------------------------------------------

\* The constant of Reciprocal Rank Fusion: 1.0 / (result.rank + 60)
RRFConstant == 60

\* The documents ingested, token_count not yet set.
Documents ==
    { [doc_id |-> "d1", content |-> <<"Alice", "likes", "tea">>,
       metadata |-> [lang |-> "en"], source |-> "unknown", token_count |-> 0],
      [doc_id |-> "d2", content |-> <<"Bob", "likes", "tea">>,
       metadata |-> [lang |-> "fr"], source |-> "unknown", token_count |-> 0],
      [doc_id |-> "d3", content |-> <<"What", "Alice", "likes">>,
       metadata |-> [lang |-> "en"], source |-> "unknown", token_count |-> 0] }

\* The lists handed to add_documents.
DocumentBatches ==
    {<<d>> : d \in Documents}
        \cup {<<a, b>> : a, b \in {d \in Documents : d.doc_id # "d3"}}

RetrievalQueries == { <<"Alice">>, <<"Bob">>, <<"likes", "Bob">>, <<"history">> }
TopKs == {1, 2}

\* Scores are fractions [num, den] with den > 0.
FracAdd(a, b) == [num |-> a.num * b.den + b.num * a.den, den |-> a.den * b.den]
FracLess(a, b) == a.num * b.den < b.num * a.den
FracEq(a, b) == a.num * b.den = b.num * a.den

DocIds(docs) == {docs[i].doc_id : i \in 1..Len(docs)}
DocIndex(docs, id) == CHOOSE i \in 1..Len(docs) : docs[i].doc_id = id

\* self.documents[doc.doc_id] = doc: a known id keeps its place.
StoreDocument(docs, doc) ==
    IF doc.doc_id \in DocIds(docs)
    THEN [docs EXCEPT ![DocIndex(docs, doc.doc_id)] = doc]
    ELSE Append(docs, doc)

\* The first loop of add_documents sets a missing token_count; the last one
\* stores every document in self.documents.
RECURSIVE StoreDocuments(_, _)
StoreDocuments(docs, batch) ==
    IF batch = <<>> THEN docs
    ELSE LET doc == Head(batch)
             counted == IF doc.token_count = 0
                        THEN [doc EXCEPT !.token_count = TokenCount(doc.content)]
                        ELSE doc
         IN StoreDocuments(StoreDocument(docs, counted), Tail(batch))

\* The sequences of n distinct elements of S.
Arrangements(S, n) ==
    {s \in [1..n -> S] : \A i, j \in 1..n : i # j => s[i] # s[j]}

\* The in-memory fallback of _semantic_retrieve: the first top_k documents
\* in insertion order, rank i scored 1.0 / i.
FallbackRetrieve(docs, top_k) ==
    [i \in 1..Min(top_k, Len(docs)) |->
        [document |-> docs[i], score |-> [num |-> 1, den |-> i], rank |-> i,
         retrieval_method |-> "in-memory-fallback"]]

\* The similarity scores Qdrant answers with, best first.
QdrantScores == { [num |-> 9, den |-> 10], [num |-> 1, den |-> 2] }

HitScores(n) ==
    {f \in [1..n -> QdrantScores] :
        \A i \in 1..(n - 1) : ~FracLess(f[i], f[i + 1])}

\* _semantic_retrieve: the lists it can return.  With a client, the search
\* answers with at most top_k points in the order of their similarity to
\* the query embedding (an embedding that may be random), or raises and the
\* fallback answers.
SemanticRetrieve(docs, client, pts, query, top_k) ==
    (IF client
     THEN {[i \in 1..Len(hits) |->
              [document |-> hits[i], score |-> scores[i], rank |-> i,
               retrieval_method |-> "semantic"]] :
                    hits \in Arrangements(pts, Min(top_k, Cardinality(pts))),
                    scores \in HitScores(Min(top_k, Cardinality(pts)))}
     ELSE {})
        \cup {FallbackRetrieve(docs, top_k)}

\* _matches_filters
MatchesFilters(doc, filters) ==
    \A key \in DOMAIN filters :
        key \in DOMAIN doc.metadata /\ doc.metadata[key] = filters[key]

\* The (doc, score) list of _bm25_retrieve: every document that passes the
\* filters (None and {} filter nothing) and shares a term with the query,
\* scored by the share of the query's terms it holds.
RECURSIVE Bm25Scores(_, _, _)
Bm25Scores(docs, query, filters) ==
    IF docs = <<>> THEN <<>>
    ELSE LET common == Terms(query) \cap Terms(Head(docs).content)
         IN (IF (filters = EmptyMap \/ MatchesFilters(Head(docs), filters))
                    /\ common # {}
             THEN <<[document |-> Head(docs),
                     score |-> [num |-> Cardinality(common),
                                den |-> Cardinality(Terms(query))]]>>
             ELSE <<>>) \o Bm25Scores(Tail(docs), query, filters)

\* Mutant of the sorts by score: the list as it is.
Unsorted(s) == s

\* list.sort / sorted by score, reverse=True: stable.
RECURSIVE SortByScoreDesc(_)
SortByScoreDesc(s) ==
    IF s = <<>> THEN <<>>
    ELSE LET best == CHOOSE i \in 1..Len(s) :
                        /\ \A j \in 1..Len(s) : ~FracLess(s[i].score, s[j].score)
                        /\ \A j \in 1..(i - 1) : FracLess(s[j].score, s[i].score)
         IN <<s[best]>> \o SortByScoreDesc(RemoveAt(s, best))

\* _bm25_retrieve
Bm25Retrieve(docs, query, top_k, filters) ==
    LET scores == Take(SortByScoreDesc(Bm25Scores(docs, query, filters)), top_k)
    IN [i \in 1..Len(scores) |->
          [document |-> scores[i].document, score |-> scores[i].score,
           rank |-> i, retrieval_method |-> "bm25"]]

\* Mutant of the fusion term: the rank alone, without the constant.
RRFTermNoConstant(rank) == [num |-> 1, den |-> rank]

\* 1.0 / (result.rank + 60)
RRFTerm(rank) == [num |-> 1, den |-> rank + RRFConstant]

\* One loop of _hybrid_retrieve over a result list: combined is
\* combined_scores and doc_results together, in insertion order.
RECURSIVE Accumulate(_, _)
Accumulate(combined, results) ==
    IF results = <<>> THEN combined
    ELSE LET result == Head(results)
             id == result.document.doc_id
             known == {i \in 1..Len(combined) : combined[i].doc_id = id}
         IN Accumulate(
                IF known # {}
                THEN LET i == CHOOSE k \in known : TRUE
                     IN [combined EXCEPT ![i].score =
                            FracAdd(@, RRFTerm(result.rank))]
                ELSE Append(combined,
                            [doc_id |-> id,
                             score |-> FracAdd([num |-> 0, den |-> 1],
                                               RRFTerm(result.rank)),
                             result |-> result]),
                Tail(results))

\* _hybrid_retrieve after its two retrievals: fusion, sort and cut.
HybridFuse(semantic_results, bm25_results, top_k) ==
    LET combined == Accumulate(Accumulate(<<>>, semantic_results), bm25_results)
        sorted_docs == Take(SortByScoreDesc(combined), top_k)
    IN [i \in 1..Len(sorted_docs) |->
          [document |-> sorted_docs[i].result.document,
           score |-> sorted_docs[i].score, rank |-> i,
           retrieval_method |-> "hybrid"]]

InitT3 ==
    /\ documents = <<>>
    /\ points = {}
    /\ hybrid = <<>>

\* Whether the constructor reached Qdrant.
InitT3Env == qdrant \in BOOLEAN

\* add_documents(batch).  With a client the upsert stores the points or
\* raises, which is logged; the documents are stored in memory either way.
AddDocuments(batch) ==
    /\ documents' = StoreDocuments(documents, batch)
    /\ \/ /\ qdrant
          /\ LET upserted == StoreDocuments(<<>>, batch)
             IN points' = {p \in points : p.doc_id \notin DocIds(upserted)}
                            \cup {upserted[i] : i \in 1..Len(upserted)}
       \/ UNCHANGED points
    /\ hybrid' = <<>>
    /\ UNCHANGED qdrant
    /\ UNCHANGED <<vars1, vars2, vars4, varsG, varsO, varsS, varsR, varsC, varsP>>

\* A call of _hybrid_retrieve(query, top_k, None).
HybridRetrieve(query, top_k) ==
    /\ \E semantic_results \in
            SemanticRetrieve(documents, qdrant, points, query, top_k * 2) :
          LET bm25_results == Bm25Retrieve(documents, query, top_k * 2, EmptyMap)
          IN hybrid' = <<[query |-> query, top_k |-> top_k,
                          semantic_results |-> semantic_results,
                          bm25_results |-> bm25_results,
                          results |-> HybridFuse(semantic_results,
                                                 bm25_results, top_k)]>>
    /\ UNCHANGED <<documents, qdrant, points>>
    /\ UNCHANGED <<vars1, vars2, vars4, varsG, varsO, varsS, varsR, varsC, varsP>>

\* ------------------------------------------------------------------------
\* Tier 3: retrieve
\* ------------------------------------------------------------------------

\* retrieve calls that compute a result in one run.
MaxRetrievals == 2

\* config.rerank_top_n (5 by default), scaled with the number of documents.
rerank_top_n == 1

\* The strategies retrieve knows.
Strategies == {"semantic", "bm25", "hybrid"}

\* The inputs of retrieve.  A query is its words; filters None is the
\* empty map.
QueryTexts == { <<"likes">>, <<"likes:2">> }
RetrieveTopKs == {2}
StrategyNames == Strategies \cup {"2:hybrid"}
RetrievalFilters == { EmptyMap, [lang |-> "en"] }

\* The text of a query: its words joined by blanks.
RECURSIVE QueryText(_)
QueryText(words) ==
    IF words = <<>> THEN ""
    ELSE IF Len(words) = 1 THEN words[1]
    ELSE words[1] \o " " \o QueryText(Tail(words))

\* cache_key = f"{query}:{top_k}:{strategy}"
CacheKey(query, top_k, strategy) ==
    QueryText(query) \o ":" \o ToString(top_k) \o ":" \o strategy

\* a < b for fractions of any size, by their continued fractions.
RECURSIVE FracLessExact(_, _)
FracLessExact(a, b) ==
    LET qa == a.num \div a.den
        qb == b.num \div b.den
        ra == a.num % a.den
        rb == b.num % b.den
    IN IF qa # qb THEN qa < qb
       ELSE IF rb = 0 THEN FALSE
       ELSE IF ra = 0 THEN TRUE
       ELSE FracLessExact([num |-> b.den, den |-> rb],
                          [num |-> a.den, den |-> ra])

\* reranked.sort(key=lambda x: x.score, reverse=True): stable.
RECURSIVE SortReranked(_)
SortReranked(s) ==
    IF s = <<>> THEN <<>>
    ELSE LET best == CHOOSE i \in 1..Len(s) :
                        /\ \A j \in 1..Len(s) : ~FracLessExact(s[i].score, s[j].score)
                        /\ \A j \in 1..(i - 1) : FracLessExact(s[j].score, s[i].score)
         IN <<s[best]>> \o SortReranked(RemoveAt(s, best))

\* _rerank for a query with at least one term:
\* new_score = score * 0.7 + (overlap / len(query_terms)) * 0.3, the method
\* renamed, the list sorted again and ranked again.
Rerank(query, results) ==
    LET query_terms == Terms(query)
        n == Cardinality(query_terms)
        rescored ==
            [i \in 1..Len(results) |->
                LET result == results[i]
                    overlap == Cardinality(query_terms
                                    \cap Terms(result.document.content))
                IN [document |-> result.document,
                    score |-> [num |-> 7 * result.score.num * n
                                          + 3 * overlap * result.score.den,
                               den |-> 10 * result.score.den * n],
                    rank |-> result.rank,
                    retrieval_method |-> result.retrieval_method \o "_reranked"]]
        reranked == SortReranked(rescored)
    IN [i \in 1..Len(reranked) |-> [reranked[i] EXCEPT !.rank = i]]

\* Mutant of the slice handed to _rerank: the whole list.
RerankInputWhole(results) == results

\* results[:self.rerank_top_n * 2]
RerankInput(results) == Take(results, rerank_top_n * 2)

\* The lists the strategy's retrieval can answer with.
StrategyResults(docs, client, pts, query, top_k, filters, strategy) ==
    IF strategy = "semantic"
    THEN SemanticRetrieve(docs, client, pts, query, top_k)
    ELSE IF strategy = "bm25"
    THEN {Bm25Retrieve(docs, query, top_k, filters)}
    ELSE {HybridFuse(semantic_results,
                     Bm25Retrieve(docs, query, top_k * 2, filters), top_k) :
            semantic_results \in SemanticRetrieve(docs, client, pts, query, top_k * 2)}

\* What the stores retrieve may touch hold.
RetrievalState(c, docs, n) ==
    [cache |-> c, documents |-> docs, total_retrievals |-> n]

\* Mutant of the cache check: the cache is never consulted.
CacheHitNever(c, cache_key) == FALSE

\* cache_key in self.cache and self.config.enable_caching
CacheHit(c, cache_key) == cache_key \in DOMAIN c /\ enable_caching

\* retrieve(query, top_k, filters, strategy) on a cache c and a counter n:
\* the outcomes it can have, each the error raised ("" for none), the list
\* returned, the cache and the counter it leaves, and the number of results
\* the strategy yielded when one ran.
RetrieveOutcomes(c, n, query, top_k, filters, strategy) ==
    LET cache_key == CacheKey(query, top_k, strategy)
    IN IF CacheHit(c, cache_key)
       THEN {[raised |-> "", results |-> c[cache_key], cache |-> c,
              total_retrievals |-> n, yielded |-> <<>>]}
       ELSE IF strategy \notin Strategies
       THEN {[raised |-> "ValueError", results |-> <<>>, cache |-> c,
              total_retrievals |-> n, yielded |-> <<>>]}
       ELSE {IF rerank_enabled /\ Len(results) > rerank_top_n
                    /\ Terms(query) = {}
             THEN \* overlap / len(query_terms) with no query term
                  [raised |-> "ZeroDivisionError", results |-> <<>>,
                   cache |-> c, total_retrievals |-> n,
                   yielded |-> <<Len(results)>>]
             ELSE LET reranked ==
                          IF rerank_enabled /\ Len(results) > rerank_top_n
                          THEN Rerank(query, RerankInput(results))
                          ELSE results
                      limited == Take(reranked, top_k)
                  IN [raised |-> "", results |-> limited,
                      cache |-> IF enable_caching
                                THEN [k \in (DOMAIN c) \cup {cache_key} |->
                                        IF k = cache_key THEN limited ELSE c[k]]
                                ELSE c,
                      total_retrievals |-> n + 1,
                      yielded |-> <<Len(results)>>] :
                results \in StrategyResults(documents, qdrant, points, query,
                                            top_k, filters, strategy)}

\* The first list returned for each (query, top_k, strategy).
Returned(query, top_k, strategy, outcome) ==
    LET call == [query |-> query, top_k |-> top_k, strategy |-> strategy]
    IN IF outcome.raised # "" \/ call \in DOMAIN returned_lists
       THEN returned_lists
       ELSE [c \in (DOMAIN returned_lists) \cup {call} |->
                IF c = call THEN outcome.results ELSE returned_lists[c]]

InitR ==
    /\ cache = EmptyMap
    /\ total_retrievals = 0
    /\ retrieved = <<>>
    /\ returned_lists = EmptyMap

InitREnv == enable_caching \in BOOLEAN

\* config.rerank_enabled: bool = True
InitRerank == rerank_enabled = TRUE

\* A call of retrieve(query, top_k, filters, strategy), recorded with its
\* arguments, its outcome and the stores before and after.
Retrieve(query, top_k, filters, strategy) ==
    /\ total_retrievals < MaxRetrievals
    /\ \E outcome \in RetrieveOutcomes(cache, total_retrievals, query, top_k,
                                       filters, strategy) :
          /\ cache' = outcome.cache
          /\ total_retrievals' = outcome.total_retrievals
          /\ returned_lists' = Returned(query, top_k, strategy, outcome)
          /\ retrieved' =
               <<[query |-> query, top_k |-> top_k, filters |-> filters,
                  strategy |-> strategy, raised |-> outcome.raised,
                  results |-> outcome.results, yielded |-> outcome.yielded,
                  before |-> RetrievalState(cache, documents, total_retrievals),
                  after |-> RetrievalState(outcome.cache, documents,
                                           outcome.total_retrievals)]>>
    /\ UNCHANGED <<documents, qdrant, points, hybrid, enable_caching,
                   rerank_enabled>>
    /\ UNCHANGED <<vars1, vars2, vars4, varsG, varsO, varsS, varsC, varsP>>

\* Ingests and retrievals of one knowledge base.
NextR ==
    \/ \E doc \in {d \in Documents : d.doc_id # "d3"} : AddDocuments(<<doc>>)
    \/ \E q \in QueryTexts, k \in RetrieveTopKs, f \in RetrievalFilters,
          s \in StrategyNames : Retrieve(q, k, f, s)

NextT3 ==
    \/ \E batch \in DocumentBatches : AddDocuments(batch)
    \/ \E q \in RetrievalQueries, k \in TopKs : HybridRetrieve(q, k)

\* ------------------------------------------------------------------------
\* Tier 3: claims
\* ------------------------------------------------------------------------

\* The ranks at which a result list holds the document id.
RanksOf(results, id) ==
    {results[i].rank : i \in {j \in 1..Len(results) :
                                results[j].document.doc_id = id}}

\* C6: in a hybrid query the fused score of a document at rank r1 of the
\* semantic list and rank r2 of the keyword list is 1/(r1+60) + 1/(r2+60),
\* that of a document in one list only at rank r is 1/(r+60), and both lists
\* are computed with limit 2 * top_k.
C6_FusedScoreIsRRF ==
    hybrid # <<>> =>
        LET h == hybrid[1]
            limit == 2 * h.top_k
            all_bm25 == Bm25Retrieve(documents, h.query, Len(documents), EmptyMap)
        IN /\ \A i \in 1..Len(h.results) :
                LET id == h.results[i].document.doc_id
                    s == RanksOf(h.semantic_results, id)
                    b == RanksOf(h.bm25_results, id)
                    score == h.results[i].score
                IN /\ Cardinality(s) <= 1 /\ Cardinality(b) <= 1
                   /\ s \cup b # {}
                   /\ \A r1 \in s, r2 \in b :
                        score.num * ((r1 + 60) * (r2 + 60))
                            = ((r1 + 60) + (r2 + 60)) * score.den
                   /\ b = {} => \A r \in s : score.num * (r + 60) = score.den
                   /\ s = {} => \A r \in b : score.num * (r + 60) = score.den
           /\ h.bm25_results = Take(all_bm25, limit)
           /\ Len(h.semantic_results) <= limit
           /\ \/ Len(h.semantic_results) = Min(limit, Len(documents))
              \/ qdrant /\ Len(h.semantic_results) = Min(limit, Cardinality(points))

\* C6 witness: a hybrid result whose first document is in both lists at
\* different ranks and whose second is in the semantic list only.
C6_Witness ==
    /\ hybrid # <<>>
    /\ Len(hybrid[1].results) = 2
    /\ \E r1 \in RanksOf(hybrid[1].semantic_results,
                         hybrid[1].results[1].document.doc_id),
          r2 \in RanksOf(hybrid[1].bm25_results,
                         hybrid[1].results[1].document.doc_id) : r1 # r2
    /\ RanksOf(hybrid[1].bm25_results,
               hybrid[1].results[2].document.doc_id) = {}
    /\ RanksOf(hybrid[1].semantic_results,
               hybrid[1].results[2].document.doc_id) # {}

\* The orders in which the documents held could have been ingested.
IngestionOrders(docs) ==
    {[i \in 1..Len(docs) |-> docs[p[i]]] : p \in Arrangements(1..Len(docs), Len(docs))}

\* C7: the ordered result of a hybrid retrieve is the same for every order
\* in which the documents were ingested (the answer of a Qdrant search, which
\* does not depend on that order, being the same).
C7_IngestionOrderIrrelevant ==
    hybrid # <<>> =>
        \A docs \in IngestionOrders(documents) :
            LET h == hybrid[1]
                semantic_results ==
                    IF h.semantic_results
                            = FallbackRetrieve(documents, h.top_k * 2)
                    THEN FallbackRetrieve(docs, h.top_k * 2)
                    ELSE h.semantic_results
            IN HybridFuse(semantic_results,
                          Bm25Retrieve(docs, h.query, h.top_k * 2, EmptyMap),
                          h.top_k) = h.results

\* The documents held that share a term with the query.
SharingTerm(docs, query) ==
    {i \in 1..Len(docs) : Terms(query) \cap Terms(docs[i].content) # {}}

\* C26: in a hybrid retrieve, a document that is the only ingested document
\* sharing a term with the query is returned at rank 1, whatever else was
\* ingested, in whatever order, for any top_k >= 1.
C26_OnlyMatchRanksFirst ==
    hybrid # <<>> =>
        \A i \in 1..Len(documents) :
            SharingTerm(documents, hybrid[1].query) = {i} =>
                /\ hybrid[1].results # <<>>
                /\ hybrid[1].results[1].document.doc_id = documents[i].doc_id
                /\ hybrid[1].results[1].rank = 1

\* C12: every result of retrieve(query, top_k, filters=F, strategy), for the
\* strategies semantic, bm25 and hybrid, is a document whose metadata equals
\* F on every key of F, whatever was ingested and queried before.
C12_ResultsMatchFilters ==
    (retrieved # <<>> /\ retrieved[1].raised = ""
            /\ retrieved[1].strategy \in Strategies) =>
        \A i \in 1..Len(retrieved[1].results) :
            MatchesFilters(retrieved[1].results[i].document, retrieved[1].filters)

\* C13: with caching enabled, a retrieve with the (query, top_k, strategy)
\* of an earlier retrieve returns the list the first one returned, whatever
\* was ingested in between; and no step, an ingest included, removes or
\* changes a cache entry.
C13_CachedListReturnedAgain ==
    [][/\ (enable_caching' /\ retrieved' # <<>> /\ retrieved'[1].raised = "") =>
            LET call == [query |-> retrieved'[1].query,
                         top_k |-> retrieved'[1].top_k,
                         strategy |-> retrieved'[1].strategy]
            IN /\ call \in DOMAIN returned_lists'
               /\ retrieved'[1].results = returned_lists'[call]
       /\ \A cache_key \in DOMAIN cache :
            cache_key \in DOMAIN cache' /\ cache'[cache_key] = cache[cache_key]
      ]_vars

\* C13 witness: a keyword retrieve answered from the cache with one document
\* while two documents holding the query's term are stored.
C13_Witness ==
    /\ enable_caching
    /\ retrieved # <<>>
    /\ retrieved[1].raised = ""
    /\ retrieved[1].strategy = "bm25"
    /\ retrieved[1].query = <<"likes">>
    /\ retrieved[1].filters = EmptyMap
    /\ retrieved[1].before = retrieved[1].after
    /\ Len(retrieved[1].results) = 1
    /\ Len(documents) = 2

\* The methods a strategy's results carry when Qdrant answered the search.
AnsweredMethods(strategy) == {strategy, strategy \o "_reranked"}

\* C14: without a Qdrant client, retrieve with the semantic or the hybrid
\* strategy returns without raising and every result carries a
\* retrieval_method other than the one it carries when Qdrant answered.
C14_DegradedResultsTagged ==
    (~qdrant /\ retrieved # <<>>
            /\ retrieved[1].strategy \in {"semantic", "hybrid"}) =>
        /\ retrieved[1].raised = ""
        /\ \A i \in 1..Len(retrieved[1].results) :
              retrieved[1].results[i].retrieval_method
                  \notin AnsweredMethods(retrieved[1].strategy)

\* C20: retrieve with a strategy other than semantic, bm25 and hybrid raises
\* and leaves the cache, the documents and total_retrievals as they were.
C20_UnknownStrategyRaises ==
    (retrieved # <<>> /\ retrieved[1].strategy \notin Strategies) =>
        /\ retrieved[1].raised = "ValueError"
        /\ retrieved[1].before = retrieved[1].after

\* Up to three documents holding the query's term, retrieved with top_k
\* below, at and above 2 * rerank_top_n.
RerankQueries == { <<"likes">> }
RerankTopKs == {1, 2, 3}

\* A knowledge base is ingested, then queried.
NextRerank ==
    \/ /\ retrieved = <<>>
       /\ \E doc \in Documents : AddDocuments(<<doc>>)
    \/ \E q \in RerankQueries, k \in RerankTopKs, s \in Strategies :
          Retrieve(q, k, EmptyMap, s)

\* C38: every list retrieve returns has at most top_k results, scores that
\* do not increase from first to last and ranks 1, 2, ..., n in list order,
\* for the three strategies, reranked or not, cached or computed.
C38_ListsBoundedSortedRanked ==
    (retrieved # <<>> /\ retrieved[1].raised = ""
            /\ retrieved[1].strategy \in Strategies) =>
        LET results == retrieved[1].results
        IN /\ Len(results) <= retrieved[1].top_k
           /\ \A i \in 1..(Len(results) - 1) :
                 ~FracLessExact(results[i].score, results[i + 1].score)
           /\ \A i \in 1..Len(results) : results[i].rank = i

\* C38 witness: a reranked list of two results with different scores,
\* answered from the cache.
C38_Witness ==
    /\ retrieved # <<>>
    /\ retrieved[1].raised = ""
    /\ retrieved[1].yielded = <<>>
    /\ Len(retrieved[1].results) = 2
    /\ retrieved[1].results[1].retrieval_method = "hybrid_reranked"
    /\ FracLessExact(retrieved[1].results[2].score,
                     retrieved[1].results[1].score)

\* C39: with reranking enabled, when the strategy yields more than
\* rerank_top_n candidates, retrieve returns at most 2 * rerank_top_n
\* results, whatever top_k; with reranking disabled or at most rerank_top_n
\* candidates, it returns min(top_k, number of candidates) results.
C39_RerankCapsTheList ==
    (retrieved # <<>> /\ retrieved[1].raised = ""
            /\ retrieved[1].yielded # <<>>) =>
        LET candidates == retrieved[1].yielded[1]
            n == Len(retrieved[1].results)
        IN IF rerank_enabled /\ candidates > rerank_top_n
           THEN n <= 2 * rerank_top_n
           ELSE n = Min(retrieved[1].top_k, candidates)

\* C39 witness: three candidates for top_k = 3 with reranking enabled, and
\* fewer results returned than candidates.
C39_Witness ==
    /\ retrieved # <<>>
    /\ retrieved[1].raised = ""
    /\ rerank_enabled
    /\ retrieved[1].yielded = <<3>>
    /\ retrieved[1].top_k = 3
    /\ Len(retrieved[1].results) = 2 * rerank_top_n

\* ------------------------------------------------------------------------
\* Tier 4: entities
\* ------------------------------------------------------------------------

\* Extracted names: two that differ only in letter case, one that differs.
Names == { <<"Alice">>, <<"alice">>, <<"Bob">> }

\* hash(name) % 1000000: fixed within a process, with collisions possible.
HashIds == 1..Cardinality(Names)

\* The "entities" list of one extraction result, by name.
Batches == { <<<<"Alice">>>>, <<<<"alice">>>>, <<<<"Bob">>>>,
             <<<<"Alice">>, <<"alice">>>>, <<<<"Alice">>, <<"Bob">>>>,
             <<<<"Bob">>, <<"Alice">>>> }

\* The context maps handed to extract_and_store_entities (None is the
\* empty map: attributes=context or {}).
Contexts == { EmptyMap, [topic |-> 1], [topic |-> 2, lang |-> 1] }

\* mention_count: int = 0 and importance_score: float = 0.5 of Entity;
\* ent_data.get('importance', 0.5)
DefaultMentionCount == 0
DefaultEntityImportance == 50

\* extract_and_store_entities calls in one run.
MaxExtractions == 2

\* dict.update: the keys of both, the second map winning.
DictUpdate(a, b) ==
    [k \in (DOMAIN a) \cup (DOMAIN b) |-> IF k \in DOMAIN b THEN b[k] ELSE a[k]]

Entity(id, name, type, importance, attributes) ==
    [entity_id |-> id, name |-> name, entity_type |-> type,
     attributes |-> attributes, mention_count |-> DefaultMentionCount,
     importance_score |-> importance]

EntityIds(ents) == {ents[i].entity_id : i \in 1..Len(ents)}

EntityIndex(ents, id) == CHOOSE i \in 1..Len(ents) : ents[i].entity_id = id

\* EntityMemoryGraph.add_entity on g = [entities, entity_by_name]
AddEntity(g, entity) ==
    IF entity.entity_id \in EntityIds(g.entities)
    THEN LET i == EntityIndex(g.entities, entity.entity_id)
             existing == g.entities[i]
         IN [g EXCEPT !.entities[i] =
                [existing EXCEPT !.mention_count = existing.mention_count + 1,
                                 !.attributes = DictUpdate(existing.attributes,
                                                           entity.attributes)]]
    ELSE [entities |-> Append(g.entities, entity),
          entity_by_name |->
             [n \in (DOMAIN g.entity_by_name) \cup {LowerText(entity.name)} |->
                 IF n = LowerText(entity.name) THEN entity.entity_id
                 ELSE g.entity_by_name[n]]]

\* The loop of extract_and_store_entities over data["entities"].  With a
\* driver set, _store_entity_neo4j runs on into the statements left after
\* its try block and raises NameError (text is not a name of that scope);
\* the except of extract_and_store_entities ends the loop there.
RECURSIVE StoreBatch(_, _, _, _, _)
StoreBatch(g, ups, batch, context, driver) ==
    IF batch = <<>> THEN [graph |-> g, upserts |-> ups]
    ELSE LET name == Head(batch)
             stored == AddEntity(g, Entity(hashOf[name], name, "UNKNOWN",
                                           DefaultEntityImportance, context))
             logged == Append(ups, [name |-> name, context |-> context])
         IN IF driver THEN [graph |-> stored, upserts |-> logged]
            ELSE StoreBatch(stored, logged, Tail(batch), context, driver)

InitT4 ==
    /\ entities = <<>>
    /\ entity_by_name = EmptyMap
    /\ extractions = 0
    /\ upserts = <<>>

\* The process's hash and driver, any.
InitT4Env ==
    /\ hashOf \in [Names -> HashIds]
    /\ neo4j_driver \in BOOLEAN

\* One process: no two names collide, no driver (neo4j_password is "").
InitT4EnvDefault ==
    /\ hashOf = [n \in Names |->
                   CASE n = <<"Alice">> -> 1 [] n = <<"alice">> -> 2 [] OTHER -> 3]
    /\ neo4j_driver = FALSE

\* What extract_and_store_entities returns when the extraction call
\* answered with batch, by name: extracted_entities when the loop ran to
\* its end, [] from the except branch when _store_entity_neo4j raised.
ExtractedEntities(batch, driver) ==
    IF driver /\ batch # <<>> THEN <<>> ELSE batch

\* extract_and_store_entities, the extraction call answering with batch.
ExtractAndStoreEntities(batch, context) ==
    /\ extractions < MaxExtractions
    /\ LET r == StoreBatch([entities |-> entities,
                            entity_by_name |-> entity_by_name],
                           upserts, batch, context, neo4j_driver)
       IN /\ entities' = r.graph.entities
          /\ entity_by_name' = r.graph.entity_by_name
          /\ upserts' = r.upserts
    /\ extractions' = extractions + 1
    /\ extracted' = <<[failed |-> FALSE, batch |-> batch,
                       returned |-> ExtractedEntities(batch, neo4j_driver)]>>
    /\ UNCHANGED <<hashOf, neo4j_driver, relevant, selected, varsPM>>
    /\ UNCHANGED <<vars1, vars2, vars3, varsG, varsO, varsS, varsR, varsC>>

\* extract_and_store_entities(text, context) when the extraction call
\* raises (the service is unreachable, the key is refused) or its answer is
\* not JSON: the except branch logs the error and returns [].
ExtractAndStoreEntitiesFails(text, context) ==
    /\ extractions < MaxExtractions
    /\ extractions' = extractions + 1
    /\ extracted' = <<[failed |-> TRUE, text |-> text, returned |-> <<>>]>>
    /\ UNCHANGED <<hashOf, neo4j_driver, entities, entity_by_name, upserts,
                   relevant, selected, varsPM>>
    /\ UNCHANGED <<vars1, vars2, vars3, varsG, varsO, varsS, varsR, varsC>>

\* find_entity
FindEntity(name) ==
    IF LowerText(name) \in DOMAIN entity_by_name
    THEN {entities[i] : i \in {j \in 1..Len(entities) :
                entities[j].entity_id = entity_by_name[LowerText(name)]}}
    ELSE {}

NextT4 ==
    \E b \in Batches, c \in Contexts : ExtractAndStoreEntities(b, c)

\* ------------------------------------------------------------------------
\* Tier 4: claims on entities
\* ------------------------------------------------------------------------

\* The upserts of one name, in order.
UpsertsOf(name) == SelectSeq(upserts, LAMBDA u : u.name = name)

EntitiesNamed(name) ==
    {i \in 1..Len(entities) : entities[i].name = name}

\* C8: after one upsert of a name there is exactly one Entity of that name,
\* with mention_count 1; after two upserts there is exactly one, with
\* mention_count 2 and the union of both attribute maps, the second winning.
C8_UpsertTwiceCountsTwo ==
    \A n \in Names :
        LET ups == UpsertsOf(n)
        IN /\ Len(ups) = 1 =>
                /\ Cardinality(EntitiesNamed(n)) = 1
                /\ \A i \in EntitiesNamed(n) : entities[i].mention_count = 1
           /\ Len(ups) = 2 =>
                /\ Cardinality(EntitiesNamed(n)) = 1
                /\ \A i \in EntitiesNamed(n) :
                      /\ entities[i].mention_count = 2
                      /\ entities[i].attributes =
                            DictUpdate(ups[1].context, ups[2].context)

\* C9: names that differ only in letter case are stored as one Entity and
\* names that differ otherwise as distinct Entities: entities holds one entry
\* per lower-cased extracted name.
C9_OneEntityPerLowerName ==
    Len(entities) =
        Cardinality({LowerText(upserts[i].name) : i \in 1..Len(upserts)})

\* The texts of the turns whose extraction call fails.
FailedTexts == { <<"Alice", "likes", "tea">>, <<"likes", "tea">>,
                 <<"What", "Alice", "Bob", "likes">> }

\* The heuristic left behind the try block of _store_entity_neo4j: a span
\* starts at each capitalized word that is not 'i', 'the' or 'a' and runs
\* over the capitalized words that follow.
IsUpper(word) == Lower(word) # word
HeuristicStopwords == {"i", "the", "a"}

RECURSIVE SpanEnd(_, _)
SpanEnd(words, j) ==
    IF j <= Len(words) /\ IsUpper(words[j]) THEN SpanEnd(words, j + 1) ELSE j

PotentialEntities(words) ==
    {SubSeq(words, i, SpanEnd(words, i + 1) - 1) :
        i \in {k \in 1..Len(words) :
                 IsUpper(words[k]) /\ Lower(words[k]) \notin HeuristicStopwords}}

\* Tier 4 with either outcome of the extraction call.
NextExtraction ==
    \/ \E b \in Batches, c \in Contexts : ExtractAndStoreEntities(b, c)
    \/ \E t \in FailedTexts : ExtractAndStoreEntitiesFails(t, EmptyMap)

\* C22: when the extraction call fails, every capitalized span of the text
\* (stopwords excluded) is stored in the entity graph and returned.
C22_FallbackStoresCapitalizedSpans ==
    extracted # <<>> /\ extracted[1].failed =>
        \A span \in PotentialEntities(extracted[1].text) :
            /\ \E i \in 1..Len(extracted[1].returned) :
                    extracted[1].returned[i] = span
            /\ EntitiesNamed(span) # {}

\* C23: when the extraction call answers, the entities returned and stored
\* are those of the answer whether or not a graph-store driver is set: every
\* entity of the batch is stored in memory and returned.
C23_StoredWhateverTheDriver ==
    extracted # <<>> /\ ~extracted[1].failed =>
        /\ extracted[1].returned = extracted[1].batch
        /\ \A i \in 1..Len(extracted[1].batch) :
              hashOf[extracted[1].batch[i]] \in EntityIds(entities)

\* ------------------------------------------------------------------------
\* Tier 4: relationships and traversal
\* ------------------------------------------------------------------------

\* The entity ids that relationships join and traversals start from.
NodeIds == {"e1", "e2", "e3", "e4"}

\* The (from_entity, to_entity) of the relationships added: a chain
\* e1 -> e2 -> e3 -> e4 with one edge also reversed, a shortcut, an edge
\* closing a cycle, and a self-loop.
RelationshipEnds ==
    { <<"e1", "e2">>, <<"e2", "e1">>, <<"e2", "e3">>, <<"e3", "e4">>,
      <<"e1", "e3">>, <<"e4", "e1">>, <<"e3", "e3">> }

\* add_relationship calls with a new relationship_id in one run.
MaxRelationships == 3
\* The largest max_depth asked of get_connected_entities.
MaxDepth == 3

\* strength: float = 0.5 of Relationship, as a fraction in lowest terms.
DefaultStrength == [num |-> 1, den |-> 2]
\* The relationship_type of the relationships the traversals run over.
DefaultType == "RELATED_TO"
\* The largest denominator of a strength the model follows: each update
\* of a relationship can double it.
MaxStrengthDen == 4

RECURSIVE Gcd(_, _)
Gcd(a, b) == IF b = 0 THEN a ELSE Gcd(b, a % b)

\* (a + b) / 2 on two strengths, in lowest terms.
AverageStrength(a, b) ==
    LET n == a.num * b.den + b.num * a.den
        d == 2 * a.den * b.den
        g == Gcd(n, d)
    IN [num |-> n \div g, den |-> d \div g]

\* Relationship; attributes and the two timestamps are left out.
Relationship(id, from, to, type, strength) ==
    [relationship_id |-> id, from_entity |-> from, to_entity |-> to,
     relationship_type |-> type, strength |-> strength]

RelationshipIds(rels) == {rels[i].relationship_id : i \in 1..Len(rels)}

RelationshipById(rels, id) ==
    rels[CHOOSE i \in 1..Len(rels) : rels[i].relationship_id = id]

\* [x for x in s if P(x)], for P the membership of x.to_entity = entity_id
RECURSIVE Incoming(_, _)
Incoming(rels, entity_id) ==
    IF rels = <<>> THEN <<>>
    ELSE (IF Head(rels).to_entity = entity_id THEN <<Head(rels)>> ELSE <<>>)
            \o Incoming(Tail(rels), entity_id)

\* Mutant of get_entity_relationships: "both" answers as "outgoing" does.
GetEntityRelationshipsOutgoingOnly(rels, by_entity, entity_id, direction) ==
    [i \in 1..Len(by_entity[entity_id]) |->
        RelationshipById(rels, by_entity[entity_id][i])]

\* get_entity_relationships
GetEntityRelationships(rels, by_entity, entity_id, direction) ==
    LET outgoing == [i \in 1..Len(by_entity[entity_id]) |->
                        RelationshipById(rels, by_entity[entity_id][i])]
        incoming == Incoming(rels, entity_id)
    IN CASE direction = "outgoing" -> outgoing
         [] direction = "incoming" -> incoming
         [] OTHER -> outgoing \o incoming

\* The for loop of get_connected_entities over the relationships of
\* current_id: the (next_id, depth + 1) appended to the queue.
RECURSIVE Enqueue(_, _, _, _)
Enqueue(rs, current_id, depth, visited) ==
    IF rs = <<>> THEN <<>>
    ELSE LET rel == Head(rs)
             next_id == IF rel.from_entity = current_id
                        THEN rel.to_entity ELSE rel.from_entity
         IN (IF next_id \notin visited
             THEN <<[id |-> next_id, depth |-> depth + 1]>> ELSE <<>>)
                \o Enqueue(Tail(rs), current_id, depth, visited)

\* The while loop of get_connected_entities.
RECURSIVE Traverse(_, _, _, _, _)
Traverse(rels, by_entity, queue, visited, max_depth) ==
    IF queue = <<>> THEN visited
    ELSE LET current == Head(queue)
         IN IF current.id \in visited \/ current.depth > max_depth
            THEN Traverse(rels, by_entity, Tail(queue), visited, max_depth)
            ELSE LET seen == visited \cup {current.id}
                     rs == GetEntityRelationships(rels, by_entity,
                                                  current.id, "both")
                 IN Traverse(rels, by_entity,
                             Tail(queue) \o Enqueue(rs, current.id,
                                                    current.depth, seen),
                             seen, max_depth)

\* get_connected_entities
GetConnectedEntities(rels, by_entity, entity_id, max_depth) ==
    Traverse(rels, by_entity, <<[id |-> entity_id, depth |-> 0]>>, {}, max_depth)

InitG ==
    /\ relationships = <<>>
    /\ relationships_by_entity = [n \in NodeIds |-> <<>>]
    /\ connected = <<>>

\* EntityMemoryGraph.add_relationship on g = [relationships,
\* relationships_by_entity]: a relationship_id already present takes the
\* update branch, which averages the strength and looks at nothing else of
\* the relationship handed in.
GraphAddRelationship(g, relationship) ==
    IF relationship.relationship_id \in RelationshipIds(g.relationships)
    THEN LET i == CHOOSE k \in 1..Len(g.relationships) :
                    g.relationships[k].relationship_id
                        = relationship.relationship_id
         IN [g EXCEPT !.relationships[i].strength =
                AverageStrength(@, relationship.strength)]
    ELSE [relationships |-> Append(g.relationships, relationship),
          relationships_by_entity |->
              [g.relationships_by_entity EXCEPT
                  ![relationship.from_entity] =
                      Append(@, relationship.relationship_id)]]

\* A call of add_relationship.
AddRelationship(id, from, to, type, strength) ==
    /\ LET g == GraphAddRelationship(
                    [relationships |-> relationships,
                     relationships_by_entity |-> relationships_by_entity],
                    Relationship(id, from, to, type, strength))
       IN /\ \A i \in 1..Len(g.relationships) :
                g.relationships[i].strength.den <= MaxStrengthDen
          /\ relationships' = g.relationships
          /\ relationships_by_entity' = g.relationships_by_entity
    /\ connected' = <<>>
    /\ UNCHANGED <<hashOf, neo4j_driver, entities, entity_by_name,
                   extractions, upserts>>
    /\ UNCHANGED <<vars1, vars2, vars3, varsO, varsS, varsR, varsC, varsP>>

\* A call of get_connected_entities(entity_id, max_depth).
ConnectedEntities(entity_id, max_depth) ==
    /\ connected' =
         <<[entity_id |-> entity_id, max_depth |-> max_depth,
            visited |-> GetConnectedEntities(relationships,
                            relationships_by_entity, entity_id, max_depth)]>>
    /\ UNCHANGED <<relationships, relationships_by_entity>>
    /\ UNCHANGED <<hashOf, neo4j_driver, entities, entity_by_name,
                   extractions, upserts>>
    /\ UNCHANGED <<vars1, vars2, vars3, varsO, varsS, varsR, varsC, varsP>>

NextG ==
    \/ \E id \in 1..Min(Len(relationships) + 1, MaxRelationships),
          ends \in RelationshipEnds :
            AddRelationship(id, ends[1], ends[2], DefaultType, DefaultStrength)
    \/ \E n \in NodeIds, d \in 0..MaxDepth : ConnectedEntities(n, d)

\* ------------------------------------------------------------------------
\* Tier 4: claims on traversal
\* ------------------------------------------------------------------------

\* The entities one relationship away from n, in either direction.
Neighbours(n) ==
    {m \in NodeIds : \E i \in 1..Len(relationships) :
        \/ relationships[i].from_entity = n /\ relationships[i].to_entity = m
        \/ relationships[i].from_entity = m /\ relationships[i].to_entity = n}

\* The entities at undirected distance at most d from origin.
RECURSIVE WithinDistance(_, _)
WithinDistance(origin, d) ==
    IF d = 0 THEN {origin}
    ELSE LET near == WithinDistance(origin, d - 1)
         IN near \cup UNION {Neighbours(n) : n \in near}

\* C10: get_connected_entities(origin, max_depth) returns exactly the entity
\* ids at undirected shortest-path distance at most max_depth from the
\* origin, the origin included.
C10_ConnectedIsDistanceBall ==
    connected # <<>> =>
        connected[1].visited =
            WithinDistance(connected[1].entity_id, connected[1].max_depth)

\* C10 witness: a traversal from e1 at depth 2 that stops short of an entity
\* three relationships away and crosses a relationship against its direction.
C10_Witness ==
    /\ connected # <<>>
    /\ connected[1].entity_id = "e1"
    /\ connected[1].max_depth = 2
    /\ connected[1].visited = {"e1", "e2", "e3"}
    /\ "e4" \in WithinDistance("e1", 3)
    /\ \E i \in 1..Len(relationships) :
          /\ relationships[i].to_entity = "e1"
          /\ relationships[i].from_entity = "e2"
    /\ ~\E i \in 1..Len(relationships) : relationships[i].from_entity = "e1"

\* The relationships callers hand to add_relationship: two ids, one pair
\* of entities in both directions, two types, the two extreme strengths.
EdgeIds == {1, 2}
EdgeEnds == { <<"e1", "e2">>, <<"e2", "e1">> }
EdgeTypes == {"KNOWS", "USES"}
EdgeStrengths == { [num |-> 0, den |-> 1], [num |-> 1, den |-> 1] }

NextEdges ==
    \E id \in EdgeIds, ends \in EdgeEnds, type \in EdgeTypes,
       strength \in EdgeStrengths :
        AddRelationship(id, ends[1], ends[2], type, strength)

\* C25: adding a relationship whose (from, to, type) triple equals that of
\* an existing relationship never creates a second edge: the graph holds at
\* most one relationship per triple.
C25_OneEdgePerTriple ==
    \A i, j \in 1..Len(relationships) :
        /\ relationships[i].from_entity = relationships[j].from_entity
        /\ relationships[i].to_entity = relationships[j].to_entity
        /\ relationships[i].relationship_type
              = relationships[j].relationship_type
        => i = j

\* ------------------------------------------------------------------------
\* Snapshots: export_memory / import_memory, export_session, load_from_disk
\* ------------------------------------------------------------------------

\* 1.0, the default confidence of add_user_preference, in hundredths.
DefaultConfidence == 100

\* add_user_preference; the updated_at stamp is left out.
AddUserPreference(key, value, confidence) ==
    /\ user_preferences' =
         [k \in (DOMAIN user_preferences) \cup {key} |->
             IF k = key THEN [value |-> value, confidence |-> confidence]
             ELSE user_preferences[k]]
    /\ restored' = <<>>
    /\ UNCHANGED <<vars1, vars2, vars3, vars4, varsG, varsO, varsR, varsC, varsP>>

\* Entity.to_dict and Relationship.to_dict, on the fields of the model.
EntityToDict(e) ==
    [entity_id |-> e.entity_id, name |-> e.name, entity_type |-> e.entity_type,
     attributes |-> e.attributes, mention_count |-> e.mention_count,
     importance_score |-> e.importance_score]

RelationshipToDict(r) ==
    [relationship_id |-> r.relationship_id, from_entity |-> r.from_entity,
     to_entity |-> r.to_entity, relationship_type |-> r.relationship_type,
     strength |-> r.strength]

\* export_memory: the data written to the file.
ExportMemory(ents, rels, prefs) ==
    [entity_graph |->
        [entities |-> [i \in 1..Len(ents) |-> EntityToDict(ents[i])],
         relationships |-> [i \in 1..Len(rels) |-> RelationshipToDict(rels[i])]],
     user_preferences |-> prefs]

\* The "Restore entities" loop of import_memory: add_entity of an Entity
\* built from each entry, mention_count included.
RECURSIVE ImportEntities(_, _)
ImportEntities(g, data) ==
    IF data = <<>> THEN g
    ELSE LET entity_data == Head(data)
             entity == [entity_id |-> entity_data.entity_id,
                        name |-> entity_data.name,
                        entity_type |-> entity_data.entity_type,
                        attributes |-> entity_data.attributes,
                        mention_count |-> entity_data.mention_count,
                        importance_score |-> entity_data.importance_score]
         IN ImportEntities(AddEntity(g, entity), Tail(data))

\* The "Restore relationships" loop of import_memory: add_relationship of
\* each entry.
RECURSIVE ImportRelationships(_, _)
ImportRelationships(g, data) ==
    IF data = <<>> THEN g
    ELSE LET rel == Relationship(Head(data).relationship_id,
                                 Head(data).from_entity, Head(data).to_entity,
                                 Head(data).relationship_type,
                                 Head(data).strength)
         IN ImportRelationships(GraphAddRelationship(g, rel), Tail(data))

\* import_memory into a fresh PersistentMemorySystem.
ImportMemory(data) ==
    [graph |-> ImportEntities([entities |-> <<>>, entity_by_name |-> EmptyMap],
                              data.entity_graph.entities),
     links |-> ImportRelationships(
                  [relationships |-> <<>>,
                   relationships_by_entity |-> [n \in NodeIds |-> <<>>]],
                  data.entity_graph.relationships),
     user_preferences |-> data.user_preferences]

\* load_from_disk in a fresh ActiveContextWindow on the same persistence_path.
LoadFresh(file) ==
    IF file.exists
    THEN LoadLines(file.lines, [messages |-> <<>>, current_tokens |-> 0,
                                system_message |-> <<>>, left |-> {}])
    ELSE [messages |-> <<>>, current_tokens |-> 0, system_message |-> <<>>,
          left |-> {}]

\* What a snapshot is to carry over, as sets.
SnapshotContents(ents, rels, prefs, tier1_tokens, tier2_tokens) ==
    [entities |-> {ents[i] : i \in 1..Len(ents)},
     relationships |-> {rels[i] : i \in 1..Len(rels)},
     user_preferences |-> prefs,
     tier1_tokens |-> tier1_tokens,
     tier2_tokens |-> tier2_tokens]

InitS ==
    /\ user_preferences = EmptyMap
    /\ restored = <<>>

\* A snapshot round trip: export_session and export_memory of this instance,
\* then a fresh orchestrator that runs every import the program has:
\* import_memory for Tier 4 and load_from_disk for Tier 1.  Nothing reads
\* the file of export_session, and Tier 2 has no import.
SnapshotRoundTrip ==
    /\ LET imported == ImportMemory(ExportMemory(entities, relationships,
                                                 user_preferences))
           window == LoadFresh(disk)
       IN restored' =
            <<[source |-> SnapshotContents(entities, relationships, user_preferences,
                                   current_tokens, tier2_current_tokens),
               fresh |-> SnapshotContents(imported.graph.entities,
                                  imported.links.relationships,
                                  imported.user_preferences,
                                  window.current_tokens, 0)]>>
    /\ UNCHANGED user_preferences
    /\ UNCHANGED <<vars1, vars2, vars3, vars4, varsG, varsO, varsR, varsC, varsP>>

\* One orchestrator session: turns, a consolidation by hand, extracted
\* entities, relationships and a preference, with a round trip at any moment.
NextS ==
    \/ AddMessage("user", <<"a">>, DefaultImportance)
    \/ ClearOldMessages(1)
    \/ CompressConversation(
          <<[role |-> "user", content |-> <<"fine">>, importance_score |-> 50]>>,
          1, TRUE)
    \/ ExtractAndStoreEntities(<<<<"Alice">>>>, EmptyMap)
    \/ AddRelationship(1, "e1", "e2", DefaultType, DefaultStrength)
    \/ AddUserPreference("style", "short", DefaultConfidence)
    \/ SnapshotRoundTrip

\* ------------------------------------------------------------------------
\* Snapshots: claims
\* ------------------------------------------------------------------------

\* C11: exporting a snapshot and importing it into a fresh instance
\* reproduces the same entities, relationships and preferences (as sets, ids
\* and mention counts preserved) and the same Tier-1 and Tier-2 running token
\* totals.
C11_RoundTripReproduces ==
    restored # <<>> => restored[1].fresh = restored[1].source

\* ------------------------------------------------------------------------
\* Orchestrator: _allocate_token_budget
\* ------------------------------------------------------------------------

\* system_prompt_tokens = 500
SystemPromptTokens == 500
\* The largest available (max_tokens - 500) of a request of the model; the
\* smallest is -MaxAvailable.
MaxAvailable == 12

BudgetTokens == (SystemPromptTokens - MaxAvailable)..(SystemPromptTokens + MaxAvailable)

\* The keywords of _allocate_token_budget that a word of the model holds as
\* a substring of its lower case ('how' in 'show').
KeywordsIn(w) ==
    CASE w = "What" -> {"what"}
      [] w = "show" -> {"how"}
      [] w = "history" -> {"history"}
      [] OTHER -> {}

HistoryWords == {"history", "earlier", "before", "previous"}
KnowledgeWords == {"what", "how", "why", "explain", "tell me about"}

\* any(word in query_lower for word in words)
QueryHasAny(query, words) ==
    \E i \in 1..Len(query) : KeywordsIn(query[i]) \cap words # {}

Queries == { <<"likes">>, <<"Alice">>, <<"What", "likes">>, <<"What", "Alice">>,
             <<"history">>, <<"history", "Alice">>, <<"show", "history">>,
             <<"show", "history", "Alice">> }

\* get_relevant_entities(query, top_k=3) is non-empty: some entity's name
\* shares a term with the query.
HasRelevantEntities(query) ==
    \E i \in 1..Len(entities) : Terms(query) \cap Terms(entities[i].name) # {}

\* tier_weights in hundredths, after the three adjustments.
TierWeights(history, knowledge, entity) ==
    LET base == [tier1 |-> 35, tier2 |-> 20, tier3 |-> 30, tier4 |-> 15]
        w1 == IF history
              THEN [base EXCEPT !.tier2 = @ + 10, !.tier1 = @ - 5, !.tier3 = @ - 5]
              ELSE base
        w2 == IF knowledge
              THEN [w1 EXCEPT !.tier3 = @ + 10, !.tier1 = @ - 10]
              ELSE w1
    IN IF entity
       THEN [w2 EXCEPT !.tier4 = @ + 10, !.tier2 = @ - 5, !.tier3 = @ - 5]
       ELSE w2

\* The weights are binary floats.  Evaluated in IEEE-754 doubles, the
\* normalised weight of a tier is below its decimal value for tier1 always
\* (0.35, 0.35-0.05, 0.35-0.10, 0.35-0.05-0.10), for tier4 while it is 0.15,
\* and for tier3 at 0.30 (unadjusted, or after all three adjustments) and at
\* 0.30-0.05+0.10; it is equal or above in every other case.
WeightBelow(history, knowledge, entity, tier) ==
    \/ tier = "tier1"
    \/ tier = "tier4" /\ ~entity
    \/ tier = "tier3" /\ ((history /\ knowledge) \/ (~history /\ ~knowledge /\ ~entity))

\* Mutant of int(): round half up instead of truncating.
TruncRounded(n, d) ==
    IF n >= 0 THEN (2 * n + d) \div (2 * d) ELSE -((2 * (-n) + d) \div (2 * d))

\* int(n / d) for d > 0: truncation toward zero.
Trunc(n, d) == IF n >= 0 THEN n \div d ELSE -((-n) \div d)

\* int(available * weight) with weight the float of w/total.  A product that
\* is not a whole number truncates as the exact one does.  A whole product
\* k # 0 under a weight below its decimal value may come out just short of k,
\* and then truncates to one less in magnitude.
FloatShare(available, w, total, below) ==
    LET q == Trunc(available * w, total)
        whole == (available * w) % total = 0
    IN IF below /\ whole /\ q # 0
       THEN {q, IF q > 0 THEN q - 1 ELSE q + 1}
       ELSE {q}

\* _allocate_token_budget: the budgets it can return.
AllocateTokenBudget(max_tokens, query) ==
    LET available == max_tokens - SystemPromptTokens
        h == QueryHasAny(query, HistoryWords)
        k == QueryHasAny(query, KnowledgeWords)
        e == HasRelevantEntities(query)
        w == TierWeights(h, k, e)
        total_weight == w.tier1 + w.tier2 + w.tier3 + w.tier4
    IN { [tier1_active |-> a, tier2_compressed |-> b, tier3_retrieval |-> c,
          tier4_persistent |-> d, system_prompt |-> SystemPromptTokens] :
            a \in FloatShare(available, w.tier1, total_weight, WeightBelow(h, k, e, "tier1")),
            b \in FloatShare(available, w.tier2, total_weight, WeightBelow(h, k, e, "tier2")),
            c \in FloatShare(available, w.tier3, total_weight, WeightBelow(h, k, e, "tier3")),
            d \in FloatShare(available, w.tier4, total_weight, WeightBelow(h, k, e, "tier4")) }

\* ContextBudget.total
BudgetTotal(b) ==
    b.tier1_active + b.tier2_compressed + b.tier3_retrieval
        + b.tier4_persistent + b.system_prompt

InitO ==
    /\ budget = <<>>
    /\ budget_request = <<>>

\* A call of _allocate_token_budget(max_tokens, query).
AllocateBudget(max_tokens, query) ==
    /\ \E b \in AllocateTokenBudget(max_tokens, query) : budget' = <<b>>
    /\ budget_request' = <<[query |-> query, max_tokens |-> max_tokens,
                             entity_relevant |-> HasRelevantEntities(query)]>>
    /\ UNCHANGED <<vars1, vars2, vars3, vars4, varsG, varsS, varsR, varsC, varsP>>

\* The entities the budget reads come from extractions of single names.
NextO ==
    \/ \E m \in BudgetTokens, q \in Queries : AllocateBudget(m, q)
    \/ ExtractAndStoreEntities(<<<<"Alice">>>>, EmptyMap)

\* ------------------------------------------------------------------------
\* Orchestrator: claims on the budget
\* ------------------------------------------------------------------------

\* C2 (as stated): the four tier allocations and the system-prompt reserve of
\* the returned ContextBudget sum to max_tokens.
C2_BudgetSumsToMax ==
    budget # <<>> => BudgetTotal(budget[1]) = budget_request[1].max_tokens

\* C2 (amended): the sum differs from max_tokens by at most 3, the four
\* shares being truncated to integers; it never exceeds max_tokens when
\* max_tokens >= 500 and is never below it when max_tokens <= 500.
C2_BudgetSumWithinThree ==
    budget # <<>> =>
        LET total == BudgetTotal(budget[1])
            max_tokens == budget_request[1].max_tokens
        IN /\ max_tokens >= SystemPromptTokens =>
                (max_tokens - 3 <= total /\ total <= max_tokens)
           /\ max_tokens <= SystemPromptTokens =>
                (max_tokens <= total /\ total <= max_tokens + 3)

\* C2 witness: a budget for a query taking all three adjustments (history,
\* knowledge-seeking, a relevant entity) whose sum is 3 short of max_tokens.
C2_Witness ==
    /\ budget # <<>>
    /\ budget_request[1].query = <<"show", "history", "Alice">>
    /\ budget_request[1].entity_relevant
    /\ BudgetTotal(budget[1]) = budget_request[1].max_tokens - 3

\* ------------------------------------------------------------------------
\* Orchestrator: generate_context
\* ------------------------------------------------------------------------

\* generate_context calls in one run.
MaxQueries == 1
\* point.content[:200] of _format_key_points, scaled with the texts.
KeyPointFormatChars == 1

\* self.key_points[-10:]
FormattedKeyPoints == 10
\* top_k: int = 5 of get_relevant_memories
MemoriesTopK == 5
\* top_k=10 of the retrieve call
GenerateTopK == 10
\* list(self.user_preferences.items())[:5] and get_relevant_entities(query, top_k=5)
PreferencesShown == 5
EntitiesShown == 5
\* The words of SYSTEM_PROMPT_TEMPLATE around its two fields.
TemplateTokens == 97

\* SystemConfig as constructed.
enable_short_term_memory == TRUE
enable_long_term_memory == TRUE
retrieval_strategy == "hybrid"

\* The inputs of generate_context: max_tokens below zero, zero, and with
\* room for a document; "" is the empty query.
ContextMaxTokens == {-1, 0, 560}
ContextQueries == { <<>>, <<"Alice">> }

\* category.upper()
Upper(category) ==
    CASE category = "preserved" -> "PRESERVED"
      [] category = "important" -> "IMPORTANT"
      [] OTHER -> category

\* by_category of _format_key_points: the categories in the order of their
\* first key point.
RECURSIVE Categories(_)
Categories(kps) ==
    IF kps = <<>> THEN <<>>
    ELSE LET rest == Categories(SubSeq(kps, 1, Len(kps) - 1))
             category == kps[Len(kps)].category
         IN IF \E i \in 1..Len(rest) : rest[i] = category
            THEN rest ELSE Append(rest, category)

\* The "- content[:200]" lines of one category.
RECURSIVE PointLines(_, _)
PointLines(kps, category) ==
    IF kps = <<>> THEN <<>>
    ELSE (IF Head(kps).category = category
          THEN <<"-">> \o Take(Head(kps).content, KeyPointFormatChars)
          ELSE <<>>) \o PointLines(Tail(kps), category)

RECURSIVE CategoryBlocks(_, _)
CategoryBlocks(kps, categories) ==
    IF categories = <<>> THEN <<>>
    ELSE <<"[" \o Upper(Head(categories)) \o "]">>
            \o PointLines(kps, Head(categories))
            \o CategoryBlocks(kps, Tail(categories))

\* _format_key_points
FormatKeyPoints(kps) ==
    LET last == LastN(kps, FormattedKeyPoints)
    IN IF kps = <<>> THEN <<>> ELSE CategoryBlocks(last, Categories(last))

\* ActiveContextWindow.get_context_for_llm(include_key_points=True): the
\* list of role and content entries.
Tier1Context(sys, kps, msgs) ==
    (IF sys # <<>>
     THEN <<[role |-> "system", content |-> sys[1].content]>> ELSE <<>>)
    \o (IF kps # <<>>
        THEN <<[role |-> "system",
                content |-> <<"Key", "points", "from", "earlier", "conversation:">>
                                \o FormatKeyPoints(kps)]>>
        ELSE <<>>)
    \o [i \in 1..Len(msgs) |-> [role |-> msgs[i].role, content |-> msgs[i].content]]

\* The tokens of the contents of a Tier-1 context (its str() holds the keys
\* and the roles as well).
RECURSIVE Tier1ContextTokens(_)
Tier1ContextTokens(context) ==
    IF context = <<>> THEN 0
    ELSE TokenCount(Head(context).content) + Tier1ContextTokens(Tail(context))

\* sorted(..., key=(importance_score, timestamp), reverse=True)
RECURSIVE SortMemoriesDesc(_)
SortMemoriesDesc(mems) ==
    IF mems = <<>> THEN <<>>
    ELSE LET best == CHOOSE i \in 1..Len(mems) :
                        /\ \A j \in 1..Len(mems) : ~KeyBelow(mems[i], mems[j])
                        /\ \A j \in 1..(i - 1) : KeyBelow(mems[j], mems[i])
         IN <<mems[best]>> \o SortMemoriesDesc(RemoveAt(mems, best))

\* Mutant of the selection loop: a memory that does not fit is skipped.
RECURSIVE SelectMemoriesSkipping(_, _, _)
SelectMemoriesSkipping(mems, current, max_tokens) ==
    IF mems = <<>> THEN <<>>
    ELSE IF current + Head(mems).token_count > max_tokens
         THEN SelectMemoriesSkipping(Tail(mems), current, max_tokens)
         ELSE <<Head(mems)>>
                \o SelectMemoriesSkipping(Tail(mems),
                                          current + Head(mems).token_count,
                                          max_tokens)

\* The selection loop of get_relevant_memories: it stops at the first
\* memory that does not fit.
RECURSIVE SelectMemories(_, _, _)
SelectMemories(mems, current, max_tokens) ==
    IF mems = <<>> \/ current + Head(mems).token_count > max_tokens THEN <<>>
    ELSE <<Head(mems)>> \o SelectMemories(Tail(mems),
                                          current + Head(mems).token_count,
                                          max_tokens)

\* get_relevant_memories(max_tokens=...)
GetRelevantMemories(mems, max_tokens) ==
    SelectMemories(Take(SortMemoriesDesc(mems), MemoriesTopK), 0, max_tokens)

\* The lines of get_context_summary for the memories from the i-th on; the
\* strftime text is two words.
RECURSIVE MemoryLines(_, _)
MemoryLines(mems, i) ==
    IF mems = <<>> THEN <<>>
    ELSE <<"[Memory", ToString(i), "|", "date", "time", "|",
           ToString(Head(mems).original_message_count), "messages]">>
            \o Head(mems).summary \o MemoryLines(Tail(mems), i + 1)

\* CompressedMemoryManager.get_context_summary
GetContextSummary(mems, available_tokens) ==
    LET memories == GetRelevantMemories(mems, available_tokens)
    IN IF memories = <<>> THEN <<>>
       ELSE <<"===", "Historical", "Context", "===">> \o MemoryLines(memories, 1)

\* f"{result.score:.2f}": the score in hundredths, rounded.
ScoreText(score) == ToString((200 * score.num + score.den) \div (2 * score.den))

\* doc_text of VectorRetrievalSystem.get_context_for_llm
DocText(result) ==
    <<"[Source:", result.document.source, "|", "Relevance:",
      ScoreText(result.score) \o "]">> \o result.document.content

\* The loop of get_context_for_llm: it stops at the first document that
\* does not fit.
RECURSIVE FitDocuments(_, _, _)
FitDocuments(results, current, max_tokens) ==
    IF results = <<>>
            \/ current + TokenCount(DocText(Head(results))) > max_tokens
    THEN <<>>
    ELSE DocText(Head(results))
            \o FitDocuments(Tail(results),
                            current + TokenCount(DocText(Head(results))),
                            max_tokens)

RetrievedHeader == <<"===", "Retrieved", "Knowledge", "===">>

\* VectorRetrievalSystem.get_context_for_llm
Tier3Context(results, max_tokens) ==
    RetrievedHeader \o FitDocuments(results, TokenCount(RetrievedHeader), max_tokens)

\* The "key: value" lines of the preferences, at most five of them.
RECURSIVE PreferenceLines(_, _, _)
PreferenceLines(prefs, keys, n) ==
    IF keys = {} \/ n = 0 THEN <<>>
    ELSE LET key == CHOOSE k \in keys : TRUE
         IN <<key \o ":", prefs[key].value>>
                \o PreferenceLines(prefs, keys \ {key}, n - 1)

\* The (entity, score) list of get_relevant_entities: every entity whose
\* name shares a term with the query, scored overlap / len(query_terms)
\* times its importance (compared here times len(query_terms)).
RECURSIVE ScoredEntities(_, _)
ScoredEntities(ents, query) ==
    IF ents = <<>> THEN <<>>
    ELSE LET overlap == Cardinality(Terms(query) \cap Terms(Head(ents).name))
         IN (IF overlap > 0
             THEN <<[entity |-> Head(ents),
                     score |-> [num |-> overlap * Head(ents).importance_score,
                                den |-> 1]]>>
             ELSE <<>>) \o ScoredEntities(Tail(ents), query)

\* PersistentMemorySystem.get_relevant_entities
GetRelevantEntities(ents, query, top_k) ==
    LET scored == Take(SortByScoreDesc(ScoredEntities(ents, query)), top_k)
    IN [i \in 1..Len(scored) |-> scored[i].entity]

\* The lines of entity_text.
RECURSIVE EntityLines(_)
EntityLines(ents) ==
    IF ents = <<>> THEN <<>>
    ELSE Head(ents).name \o <<"(" \o Head(ents).entity_type \o ")">>
            \o (IF Head(ents).attributes # EmptyMap
                THEN <<"-", "{attributes}">> ELSE <<>>)
            \o EntityLines(Tail(ents))

Tier4Header == <<"===", "Long-Term", "Memory", "===">>

\* PersistentMemorySystem.get_context_for_llm(query, max_tokens)
Tier4Context(prefs, ents, query, max_tokens) ==
    LET prefs_text == <<"[User", "Preferences]">>
                        \o PreferenceLines(prefs, DOMAIN prefs, PreferencesShown)
        with_prefs == prefs # EmptyMap
                        /\ TokenCount(Tier4Header) + TokenCount(prefs_text) <= max_tokens
        after_prefs == TokenCount(Tier4Header)
                        + (IF with_prefs THEN TokenCount(prefs_text) ELSE 0)
        found == IF query # <<>> THEN GetRelevantEntities(ents, query, EntitiesShown)
                 ELSE <<>>
        entity_text == <<"[Relevant", "Entities]">> \o EntityLines(found)
        with_entities == found # <<>>
                        /\ after_prefs + TokenCount(entity_text) <= max_tokens
    IN IF with_prefs \/ with_entities
       THEN Tier4Header \o (IF with_prefs THEN prefs_text ELSE <<>>)
                \o (IF with_entities THEN entity_text ELSE <<>>)
       ELSE <<>>

\* One line of _build_context_summary.
SummaryLine(name, allocated, contexts) ==
    IF name \in DOMAIN contexts /\ contexts[name] # <<>>
    THEN <<"+">> \o <<"(" \o ToString(allocated), "tokens", "allocated)", "-", "Available">>
    ELSE <<"x">> \o <<"(" \o ToString(allocated), "tokens", "allocated)", "-", "Not", "used">>

\* _build_context_summary, the tier descriptions being two words each.
BuildContextSummary(contexts, b) ==
    <<"ACTIVE", "CONTEXT">> \o SummaryLine("tier1", b.tier1_active, contexts)
    \o <<"COMPRESSED", "MEMORY">> \o SummaryLine("tier2", b.tier2_compressed, contexts)
    \o <<"RETRIEVED", "KNOWLEDGE">> \o SummaryLine("tier3", b.tier3_retrieval, contexts)
    \o <<"PERSISTENT", "MEMORY">> \o SummaryLine("tier4", b.tier4_persistent, contexts)

\* The tokens of one entry of contexts.
ContextTokens(contexts, name) ==
    IF name \notin DOMAIN contexts THEN 0
    ELSE IF name = "tier1" THEN Tier1ContextTokens(contexts[name])
    ELSE TokenCount(contexts[name])

\* The counters generate_context may touch.
OrchestratorState(stats, queries, used, c, n) ==
    [tier_usage_stats |-> stats, total_queries |-> queries,
     total_tokens_used |-> used, cache |-> c, total_retrievals |-> n]

InitC ==
    /\ total_queries = 0
    /\ total_tokens_used = 0
    /\ tier_usage_stats = [tier1 |-> 0, tier2 |-> 0, tier3 |-> 0, tier4 |-> 0]
    /\ generated = <<>>

\* The graph replaced by the list get_relevant_entities returns.
GraphReplacedByRelevant(ents, query) ==
    GetRelevantEntities(ents, query, EntitiesShown)

\* The entities of the graph after get_relevant_entities(query), which
\* _allocate_token_budget and Tier 4's get_context_for_llm call: the scored
\* entities are collected in a list of the call's own, and it is that list
\* which is sorted and cut.
GraphAfterRelevant(ents, query) == ents

\* generate_context(query, max_tokens), recorded with its arguments, the
\* error raised ("" for none), the payload and the counters before and after.
GenerateContext(query, max_tokens) ==
    /\ tier_usage_stats["tier1"] < MaxQueries
    /\ \E b \in AllocateTokenBudget(max_tokens, query) :
       \E outcome \in
            (IF b.tier3_retrieval > 0
             THEN RetrieveOutcomes(cache, total_retrievals, query, GenerateTopK,
                                   EmptyMap, retrieval_strategy)
             ELSE {[raised |-> "", results |-> <<>>, yielded |-> <<>>,
                    cache |-> cache, total_retrievals |-> total_retrievals]}) :
          LET tier1_context == Tier1Context(system_message, key_points, messages)
              tier2_context ==
                  IF enable_short_term_memory /\ b.tier2_compressed > 0
                  THEN GetContextSummary(compressed_memories, b.tier2_compressed)
                  ELSE <<>>
              tier3_context ==
                  IF outcome.results # <<>>
                  THEN Tier3Context(outcome.results, b.tier3_retrieval)
                  ELSE <<>>
              tier4_context ==
                  IF enable_long_term_memory /\ b.tier4_persistent > 0
                  THEN Tier4Context(user_preferences, entities, query,
                                    b.tier4_persistent)
                  ELSE <<>>
              used == {"tier1"}
                        \cup (IF tier2_context # <<>> THEN {"tier2"} ELSE {})
                        \cup (IF outcome.raised = "" /\ tier3_context # <<>>
                              THEN {"tier3"} ELSE {})
                        \cup (IF outcome.raised = "" /\ tier4_context # <<>>
                              THEN {"tier4"} ELSE {})
              contexts == [name \in used |->
                              CASE name = "tier1" -> tier1_context
                                [] name = "tier2" -> tier2_context
                                [] name = "tier3" -> tier3_context
                                [] OTHER -> tier4_context]
              stats == [name \in DOMAIN tier_usage_stats |->
                            tier_usage_stats[name]
                                + (IF name \in used THEN 1 ELSE 0)]
              system_prompt_tokens ==
                  TemplateTokens + TokenCount(BuildContextSummary(contexts, b))
                      + TokenCount(query)
              total_tokens ==
                  ContextTokens(contexts, "tier1") + ContextTokens(contexts, "tier2")
                      + ContextTokens(contexts, "tier3")
                      + ContextTokens(contexts, "tier4") + system_prompt_tokens
              completed == outcome.raised = ""
              raised == IF ~completed THEN outcome.raised
                        ELSE IF max_tokens = 0 THEN "ZeroDivisionError"
                        ELSE ""
              queries == IF completed THEN total_queries + 1 ELSE total_queries
              tokens == IF completed THEN total_tokens_used + total_tokens
                        ELSE total_tokens_used
          IN /\ tier_usage_stats' = stats
             /\ total_queries' = queries
             /\ total_tokens_used' = tokens
             /\ cache' = outcome.cache
             /\ total_retrievals' = outcome.total_retrievals
             /\ returned_lists' =
                  IF b.tier3_retrieval > 0
                  THEN Returned(query, GenerateTopK, retrieval_strategy, outcome)
                  ELSE returned_lists
             /\ generated' =
                  <<[query |-> query, max_tokens |-> max_tokens,
                     raised |-> raised,
                     contexts |-> contexts, budget |-> b,
                     total_tokens |-> total_tokens,
                     before |-> OrchestratorState(tier_usage_stats, total_queries,
                                                  total_tokens_used, cache,
                                                  total_retrievals),
                     after |-> OrchestratorState(stats, queries, tokens,
                                                 outcome.cache,
                                                 outcome.total_retrievals)]>>
    /\ entities' = GraphAfterRelevant(entities, query)
    /\ UNCHANGED <<hashOf, neo4j_driver, entity_by_name, extractions, upserts>>
    /\ UNCHANGED <<retrieved, enable_caching, rerank_enabled>>
    /\ UNCHANGED <<vars1, vars2, vars3, varsG, varsS, varsO, varsP>>

\* One session: at most two turns, one consolidation, one ingest, one
\* extraction and one preference, with generate_context at any moment.
NextC ==
    \/ /\ total_messages_processed < 2
       /\ AddMessage("user", <<"a">>, DefaultImportance)
    \/ /\ clock < 1
       /\ CompressConversation(
            <<[role |-> "user", content |-> <<"fine">>, importance_score |-> 50]>>,
            1, TRUE)
    \/ /\ documents = <<>>
       /\ \E batch \in {b \in DocumentBatches : DocIds(b) \subseteq {"d1", "d2"}} :
            AddDocuments(batch)
    \/ /\ extractions < 1
       /\ ExtractAndStoreEntities(<<<<"Alice">>>>, EmptyMap)
    \/ /\ user_preferences = EmptyMap
       /\ AddUserPreference("style", "short", DefaultConfidence)
    \/ \E q \in ContextQueries, m \in ContextMaxTokens : GenerateContext(q, m)

\* ------------------------------------------------------------------------
\* Orchestrator: claims on generate_context
\* ------------------------------------------------------------------------

\* The allocation of a tier in a ContextBudget.
Allocation(b, name) ==
    CASE name = "tier1" -> b.tier1_active
      [] name = "tier2" -> b.tier2_compressed
      [] name = "tier3" -> b.tier3_retrieval
      [] OTHER -> b.tier4_persistent

\* C15: for every tier in the contexts of the payload of generate_context,
\* the tokens of its rendered contribution are at most its allocation in the
\* returned ContextBudget (stated here for max_tokens of 500 or more).
C15_ContributionWithinAllocation ==
    (generated # <<>> /\ generated[1].raised = ""
            /\ generated[1].max_tokens >= SystemPromptTokens) =>
        \A name \in DOMAIN generated[1].contexts :
            ContextTokens(generated[1].contexts, name)
                <= Allocation(generated[1].budget, name)

\* C16: a tier is in the contexts of the payload only if it contributed
\* something: "tier1" is absent when the window holds no turn, system
\* message or key point, "tier3" when no retrieved document fits (stated
\* here for max_tokens of 500 or more).
C16_EmptyTierAbsent ==
    (generated # <<>> /\ generated[1].raised = ""
            /\ generated[1].max_tokens >= SystemPromptTokens) =>
        /\ "tier1" \in DOMAIN generated[1].contexts =>
                generated[1].contexts["tier1"] # <<>>
        /\ "tier3" \in DOMAIN generated[1].contexts =>
                generated[1].contexts["tier3"] # RetrievedHeader

\* C17: generate_context returns a payload without raising for every query
\* and every max_tokens >= 0.
C17_ReturnsForNonNegative ==
    (generated # <<>> /\ generated[1].max_tokens >= 0) =>
        generated[1].raised = ""

\* C19: generate_context with max_tokens < 0 raises before any tier is
\* queried: tier_usage_stats, total_queries, total_tokens_used and the
\* retrieval cache are as they were.
C19_NegativeRejected ==
    (generated # <<>> /\ generated[1].max_tokens < 0) =>
        /\ generated[1].raised # ""
        /\ generated[1].before = generated[1].after

\* ------------------------------------------------------------------------
\* Tier 2: the levels of a hierarchical summary
\* ------------------------------------------------------------------------

\* The batches summarized: those of MessageLists and a user turn of three
\* sentences, of which each level takes one more.
LevelBatches ==
    MessageLists \cup
    { <<[role |-> "user",
         content |-> <<"important", ". ", "fine", "fine", ". ",
                       "fine", "fine", "fine">>,
         importance_score |-> 50]>> }

NextLevels ==
    \E msgs \in LevelBatches, use_llm \in BOOLEAN :
        CreateHierarchicalSummary(msgs, use_llm)

\* C35: for every hierarchical summary, token_count(level 1) <=
\* token_count(level 2) <= token_count(level 3).
C35_LevelsNonDecreasing ==
    \A i \in 1..Len(hierarchical_summaries) :
        LET levels == hierarchical_summaries[i].levels
        IN /\ levels[1].token_count <= levels[2].token_count
           /\ levels[2].token_count <= levels[3].token_count

\* C35 witness: a summary whose three levels grow strictly.
C35_Witness ==
    \E i \in 1..Len(hierarchical_summaries) :
        LET levels == hierarchical_summaries[i].levels
        IN /\ levels[1].token_count < levels[2].token_count
           /\ levels[2].token_count < levels[3].token_count

\* The sentences of a summary: '. '.join(compressed) + '.' read back.
SummarySentences(summary) ==
    IF Len(summary) <= 1 THEN <<>>
    ELSE SplitSentences(SubSeq(summary, 1, Len(summary) - 1), <<>>)

\* a is b with some elements left out, the others in the order of b.
RECURSIVE IsSubsequence(_, _)
IsSubsequence(a, b) ==
    IF a = <<>> THEN TRUE
    ELSE IF b = <<>> THEN FALSE
    ELSE IF Head(a) = Head(b) THEN IsSubsequence(Tail(a), Tail(b))
    ELSE IsSubsequence(a, Tail(b))

\* C36: the sentences selected by the extractive compressor appear in the
\* summary in the same relative order as in the source text, at every level
\* of every summary.
C36_SelectionKeepsSourceOrder ==
    \A i \in 1..Len(hierarchical_summaries) :
        \A level \in DOMAIN compression_levels :
            IsSubsequence(
                SummarySentences(hierarchical_summaries[i].levels[level].summary),
                SplitSentences(hierarchical_summaries[i].original_content, <<>>))

\* ------------------------------------------------------------------------
\* Tier 2: get_relevant_memories
\* ------------------------------------------------------------------------

\* max_tokens of get_relevant_memories
MemoryBudgets == 0..Tier2MaxTokens

\* A call of get_relevant_memories(max_tokens=T): nothing of Tier 2 changes.
RelevantMemories(max_tokens) ==
    /\ selected' = <<[max_tokens |-> max_tokens,
                      held |-> compressed_memories,
                      returned |-> GetRelevantMemories(compressed_memories,
                                                       max_tokens)]>>
    /\ UNCHANGED <<relevant, extracted, varsPM>>
    /\ UNCHANGED <<vars1, vars2, vars3, vars4, varsG, varsO, varsS, varsR,
                   varsC>>

\* Memories of one to five tokens compressed, and selections at any budget.
NextMemories ==
    \/ \E msgs \in MessageLists \ {<<>>}, level \in {1, 2} :
          CompressConversation(msgs, level, TRUE)
    \/ \E t \in MemoryBudgets : RelevantMemories(t)

\* The memories of held above m in the order (importance_score, timestamp).
Above(m, held) == {j \in 1..Len(held) : KeyBelow(m, held[j])}

\* C34: get_relevant_memories(max_tokens=T) returns a prefix of the held
\* memories in descending (importance_score, timestamp) order, of at most T
\* tokens in total, and the prefix is maximal: it ends because the next
\* memory of that order would exceed T, because every memory is returned, or
\* because MemoriesTopK memories are returned.
C34_MaximalPrefixWithinBudget ==
    selected # <<>> =>
        LET r == selected[1].returned
            held == selected[1].held
            T == selected[1].max_tokens
        IN /\ Len(r) <= Len(held)
           /\ \A i \in 1..Len(r) :
                 /\ \E j \in 1..Len(held) : held[j] = r[i]
                 /\ Cardinality(Above(r[i], held)) = i - 1
           /\ SumTokenCounts(r) <= T
           /\ \/ Len(r) = Len(held)
              \/ Len(r) = MemoriesTopK
              \/ \E j \in 1..Len(held) :
                    /\ Cardinality(Above(held[j], held)) = Len(r)
                    /\ SumTokenCounts(r) + held[j].token_count > T

\* C34 witness: more than MemoriesTopK memories are held and fit, and the
\* call returned MemoriesTopK of them.
C34_Witness ==
    /\ selected # <<>>
    /\ Len(selected[1].held) > MemoriesTopK
    /\ Len(selected[1].returned) = MemoriesTopK
    /\ SumTokenCounts(selected[1].held) <= selected[1].max_tokens

\* ------------------------------------------------------------------------
\* Tier 2: claims on consolidation
\* ------------------------------------------------------------------------

\* The token count of the smallest level of a hierarchical summary.
SmallestLevel(summary) ==
    Min(summary.levels[1].token_count,
        Min(summary.levels[2].token_count, summary.levels[3].token_count))

\* C28: after a consolidation of a batch of turns, get_context_summary with
\* a budget large enough for the batch's smallest summary returns a
\* non-empty text that covers the batch: one of the memories it selects is
\* a level of that batch's summary.
C28_ConsolidatedBatchSelectable ==
    hierarchical_summaries # <<>> =>
        LET last == hierarchical_summaries[Len(hierarchical_summaries)]
            available_tokens == SmallestLevel(last)
            memories == GetRelevantMemories(compressed_memories, available_tokens)
        IN /\ GetContextSummary(compressed_memories, available_tokens) # <<>>
           /\ \E i \in 1..Len(memories), level \in DOMAIN last.levels :
                 /\ memories[i].summary = last.levels[level].summary
                 /\ memories[i].original_message_count
                       = last.levels[level].original_message_count

\* ------------------------------------------------------------------------
\* Tier 4: get_relevant_entities
\* ------------------------------------------------------------------------

\* The queries and top_k asked of get_relevant_entities.
EntityQueries == { <<"Alice", "Bob">>, <<"Bob">> }
EntityTopKs == {1, 2}

\* process_message calls in one run, each a coroutine of the one event loop.
MaxCalls == 3
CallIds == 1..MaxCalls

InitP ==
    /\ relevant = <<>>
    /\ extracted = <<>>
    /\ selected = <<>>
    /\ message_count = 0
    /\ calls = [c \in CallIds |-> [pc |-> "idle", count |-> 0]]
    /\ triggers = <<>>
    /\ processed = <<>>

\* A call of get_relevant_entities(query, top_k).
RelevantEntities(query, top_k) ==
    /\ relevant' = <<[query |-> query, top_k |-> top_k,
                      returned |-> GetRelevantEntities(entities, query, top_k)]>>
    /\ UNCHANGED <<extracted, selected, varsPM>>
    /\ UNCHANGED <<vars1, vars2, vars3, varsR, vars4, varsG, varsS, varsO,
                   varsC>>

NextEntities ==
    \/ \E b \in Batches : ExtractAndStoreEntities(b, EmptyMap)
    \/ \E q \in EntityQueries, k \in EntityTopKs : RelevantEntities(q, k)

\* The score of an entity for a query, times the number of query terms.
EntityScore(entity, query) ==
    Cardinality(Terms(query) \cap Terms(entity.name)) * entity.importance_score

\* C24: get_relevant_entities(query, top_k) returns at most top_k entities,
\* only entities sharing a term with the query, in descending order of
\* score, and among entities of equal score the one with the higher
\* mention_count first.
C24_RankedWithMentionTieBreak ==
    relevant # <<>> =>
        LET r == relevant[1].returned
            q == relevant[1].query
        IN /\ Len(r) <= relevant[1].top_k
           /\ \A i \in 1..Len(r) : Terms(q) \cap Terms(r[i].name) # {}
           /\ \A i, j \in 1..Len(r) : i < j =>
                 \/ EntityScore(r[i], q) > EntityScore(r[j], q)
                 \/ /\ EntityScore(r[i], q) = EntityScore(r[j], q)
                    /\ r[i].mention_count >= r[j].mention_count

\* ------------------------------------------------------------------------
\* Orchestrator: process_message
\* ------------------------------------------------------------------------

\* config.memory_consolidation_interval (10 by default), scaled with maxlen.
memory_consolidation_interval == 2
\* The 5 of `len(messages) > 5` and of clear_old_messages(keep_recent=5) in
\* _consolidate_memory, scaled with maxlen.
ConsolidationKeep == 1
\* config.enable_entity_memory
enable_entity_memory == TRUE

\* The content of the turns processed, and what the extraction call
\* answers for one: nothing (it raised), or a list of entity names.
ProcessContent == <<"a">>
ProcessResponses == { <<>>, << <<<<"Alice">>>> >> }

\* A call is idle until made, then suspended in the save of add_message
\* ("saving"), then suspended in the extraction request ("extracting"),
\* then over: "returned" or "raised".
InFlight(c) == calls[c].pc \in {"saving", "extracting"}

\* process_message up to its first suspension: message_count += 1, then
\* add_message as far as the writes of _save_to_disk, which are taken at
\* once (aiofiles hands them to a thread and suspends the coroutine).
ProcessMessageBegin(c, role, content, importance_score) ==
    /\ calls[c].pc = "idle"
    /\ role # "system"
    /\ total_messages_processed < MaxProcessed
    /\ message_count' = message_count + 1
    /\ LET a == AddedMessage(role, content, importance_score)
       IN /\ messages' = a.messages
          /\ current_tokens' = a.current_tokens
          /\ key_points' = a.key_points
          /\ left' = a.left
          /\ total_messages_processed' = a.total_messages_processed
          /\ disk' = a.disk
    /\ calls' = [calls EXCEPT ![c] = [pc |-> "saving",
                                      count |-> message_count + 1]]
    /\ UNCHANGED <<system_message, loaded, triggers, processed, relevant,
                   extracted, selected>>
    /\ UNCHANGED <<vars2, vars3, vars4, varsG, varsO, varsS, varsR, varsC>>

\* add_message returns; extract_and_store_entities sends its request and
\* the coroutine is suspended until the answer.
ProcessMessageExtract(c) ==
    /\ calls[c].pc = "saving"
    /\ enable_entity_memory
    /\ calls' = [calls EXCEPT ![c].pc = "extracting"]
    /\ UNCHANGED <<message_count, triggers, processed, relevant, extracted,
                   selected>>
    /\ UNCHANGED <<vars1, vars2, vars3, vars4, varsG, varsO, varsS, varsR,
                   varsC>>

\* The rest of process_message, from the answer of the extraction call:
\* the entities are stored, message_count is tested as it is now, and
\* _consolidate_memory, when called on more than ConsolidationKeep turns,
\* runs create_hierarchical_summary and then awaits its result, which is no
\* awaitable: TypeError leaves process_message before clear_old_messages.
ProcessMessageEnd(c, response) ==
    /\ calls[c].pc = "extracting"
    /\ LET r == IF response = <<>>
                THEN [graph |-> [entities |-> entities,
                                 entity_by_name |-> entity_by_name],
                      upserts |-> upserts]
                ELSE StoreBatch([entities |-> entities,
                                 entity_by_name |-> entity_by_name],
                                upserts, response[1], EmptyMap, neo4j_driver)
           returned == IF response = <<>> THEN <<>>
                       ELSE ExtractedEntities(response[1], neo4j_driver)
           triggered == /\ message_count % memory_consolidation_interval = 0
                        /\ enable_short_term_memory
           summarized == triggered /\ Len(messages) > ConsolidationKeep
       IN /\ entities' = r.graph.entities
          /\ entity_by_name' = r.graph.entity_by_name
          /\ upserts' = r.upserts
          /\ extractions' = extractions + 1
          /\ extracted' =
                IF response = <<>>
                THEN <<[failed |-> TRUE, text |-> ProcessContent,
                        returned |-> <<>>]>>
                ELSE <<[failed |-> FALSE, batch |-> response[1],
                        returned |-> returned]>>
          /\ triggers' = IF triggered THEN Append(triggers, message_count)
                         ELSE triggers
          /\ IF summarized
             THEN /\ hierarchical_summaries' =
                       Append(hierarchical_summaries,
                              HierarchicalSummary(messages, TRUE, clock + 1))
                  /\ clock' = clock + 1
             ELSE UNCHANGED <<hierarchical_summaries, clock>>
          /\ calls' = [calls EXCEPT ![c].pc =
                          IF summarized THEN "raised" ELSE "returned"]
          /\ processed' =
                <<[call |-> c, count |-> calls[c].count,
                   raised |-> IF summarized THEN "TypeError" ELSE "",
                   entities_extracted |-> Len(returned),
                   window_before |-> messages,
                   window_after |-> messages,
                   current_tokens_after |-> current_tokens]>>
    /\ UNCHANGED <<message_count, relevant, selected, hashOf, neo4j_driver>>
    /\ UNCHANGED <<compressed_memories, tier2_current_tokens,
                   total_compressed_items, compressed>>
    /\ UNCHANGED <<vars1, vars3, varsG, varsO, varsS, varsR, varsC>>

\* Calls made while others are suspended, as the handlers of /chat are.
NextProcess ==
    \/ \E c \in CallIds :
          ProcessMessageBegin(c, "user", ProcessContent, DefaultImportance)
    \/ \E c \in CallIds : ProcessMessageExtract(c)
    \/ \E c \in CallIds, response \in ProcessResponses :
          ProcessMessageEnd(c, response)

\* Calls made one after the other: each is awaited before the next.
NextProcessInTurn ==
    \/ \E c \in CallIds :
          /\ \A other \in CallIds : ~InFlight(other)
          /\ ProcessMessageBegin(c, "user", ProcessContent, DefaultImportance)
    \/ \E c \in CallIds : ProcessMessageExtract(c)
    \/ \E c \in CallIds, response \in ProcessResponses :
          ProcessMessageEnd(c, response)

\* ------------------------------------------------------------------------
\* Orchestrator: claims on process_message
\* ------------------------------------------------------------------------

\* C21: process_message returns once the Tier-1 append has completed;
\* extraction is started only after that return: a call whose extraction
\* request has been sent has returned to its caller.
C21_ReturnsBeforeExtraction ==
    \A c \in CallIds :
        calls[c].pc \in {"extracting", "returned", "raised"} =>
            calls[c].pc = "returned"

\* C27: a process_message call whose message count is a multiple of
\* memory_consolidation_interval, made while the window holds more than
\* ConsolidationKeep turns, returns normally and leaves in Tier 1 exactly
\* the ConsolidationKeep most recent turns, in order, with current_tokens
\* the sum of their token counts.
C27_ConsolidationKeepsRecent ==
    processed # <<>> =>
        LET p == processed[1]
        IN p.count % memory_consolidation_interval = 0
             /\ Len(p.window_before) > ConsolidationKeep =>
                /\ p.raised = ""
                /\ p.window_after = LastN(p.window_before, ConsolidationKeep)
                /\ p.current_tokens_after = SumTokens(p.window_after)

\* C29: with several process_message calls in flight, consolidation is
\* triggered exactly once for each multiple of
\* memory_consolidation_interval that message_count reaches: no multiple
\* is triggered twice, and once every call has ended none was missed.
C29_OneTriggerPerMultiple ==
    /\ \A i, j \in 1..Len(triggers) : triggers[i] = triggers[j] => i = j
    /\ (\A c \in CallIds : ~InFlight(c)) =>
          \A k \in 1..message_count :
              k % memory_consolidation_interval = 0 =>
                  \E i \in 1..Len(triggers) : triggers[i] = k

\* ------------------------------------------------------------------------
\* Specifications
\* ------------------------------------------------------------------------

\* Every tier as constructed, in a process where no two names share a hash,
\* no Neo4j driver is set and Qdrant was not reached.
InitDefault ==
    InitT1 /\ InitT2 /\ InitT3 /\ qdrant = FALSE /\ InitT4 /\ InitT4EnvDefault
        /\ InitG /\ InitS /\ InitR /\ InitRerank /\ enable_caching = TRUE /\ InitO /\ InitC /\ InitP
Init ==
    InitT1 /\ InitT2 /\ InitT3 /\ InitT3Env /\ InitT4 /\ InitT4Env
        /\ InitG /\ InitS /\ InitR /\ InitRerank /\ InitREnv /\ InitO /\ InitC /\ InitP
Next == NextT1 \/ NextRoles \/ NextT2 \/ NextT3 \/ NextR \/ NextT4 \/ NextG \/ NextS \/ NextO \/ NextC

SpecT1 == InitDefault /\ [][NextT1]_vars
SpecRoles == InitDefault /\ [][NextRoles]_vars
SpecCutoffs == InitDefault /\ [][NextCutoffs]_vars
SpecLevels == InitDefault /\ [][NextLevels]_vars
SpecMemories == InitDefault /\ [][NextMemories]_vars
SpecProcess == InitDefault /\ [][NextProcess]_vars
SpecProcessInTurn == InitDefault /\ [][NextProcessInTurn]_vars
SpecSummaries == InitDefault /\ [][NextSummaries]_vars
SpecT2 == InitDefault /\ [][NextT2]_vars
\* Tier 3 with or without a Qdrant client, and without one.
InitAnyQdrant ==
    InitT1 /\ InitT2 /\ InitT3 /\ InitT3Env /\ InitT4 /\ InitT4EnvDefault
        /\ InitG /\ InitS /\ InitR /\ InitRerank /\ enable_caching = TRUE /\ InitO /\ InitC /\ InitP
SpecT3 == InitAnyQdrant /\ [][NextT3]_vars
SpecT3InMemory == InitDefault /\ [][NextT3]_vars
\* retrieve with or without a Qdrant client, with or without the cache.
InitAnyRetrieval ==
    InitT1 /\ InitT2 /\ InitT3 /\ InitT3Env /\ InitT4 /\ InitT4EnvDefault
        /\ InitG /\ InitS /\ InitR /\ InitRerank /\ InitREnv /\ InitO /\ InitC /\ InitP
\* retrieve with or without a Qdrant client, with or without reranking.
InitAnyRerank ==
    InitT1 /\ InitT2 /\ InitT3 /\ InitT3Env /\ InitT4 /\ InitT4EnvDefault
        /\ InitG /\ InitS /\ InitR /\ rerank_enabled \in BOOLEAN
        /\ enable_caching = TRUE /\ InitO /\ InitC /\ InitP
SpecRerank == InitAnyRerank /\ [][NextRerank]_vars
SpecRetrieve == InitAnyRetrieval /\ [][NextR]_vars
\* Tier 4 in any process, and in one where no two names share a hash.
InitAnyProcess ==
    InitT1 /\ InitT2 /\ InitT3 /\ qdrant = FALSE /\ InitT4 /\ InitT4Env
        /\ InitG /\ InitS /\ InitR /\ InitRerank /\ enable_caching = TRUE /\ InitO /\ InitC /\ InitP
SpecT4 == InitAnyProcess /\ [][NextT4]_vars
\* Tier 4 in a process where no two names share a hash, with or without a
\* Neo4j driver.
InitAnyDriver ==
    InitT1 /\ InitT2 /\ InitT3 /\ qdrant = FALSE /\ InitT4
        /\ hashOf = [n \in Names |->
                       CASE n = <<"Alice">> -> 1 [] n = <<"alice">> -> 2
                         [] OTHER -> 3]
        /\ neo4j_driver \in BOOLEAN
        /\ InitG /\ InitS /\ InitR /\ InitRerank /\ enable_caching = TRUE /\ InitO /\ InitC
        /\ InitP
SpecExtraction == InitAnyDriver /\ [][NextExtraction]_vars
SpecT4Default == InitDefault /\ [][NextT4]_vars
SpecEntities == InitDefault /\ [][NextEntities]_vars
SpecEdges == InitDefault /\ [][NextEdges]_vars
SpecGraph == InitDefault /\ [][NextG]_vars
SpecSnapshot == InitDefault /\ [][NextS]_vars
\* The budget allocation over the entities of Tier 4.
SpecBudget == InitDefault /\ [][NextO]_vars
SpecContext == InitDefault /\ [][NextC]_vars
Spec == Init /\ [][Next]_vars


\* ------------------------------------------------------------------------
\* Orchestrator: what generate_context leaves in the tiers
\* ------------------------------------------------------------------------

\* What the four tiers store: the window with its key points and counters and
\* its file, the memories with their summaries and counters, the documents
\* and the index, the graph with its relationships, the preferences, and the
\* switches of Tier 3.
TierStores ==
    <<messages, key_points, system_message, current_tokens,
      total_messages_processed, disk,
      compressed_memories, hierarchical_summaries, tier2_current_tokens,
      total_compressed_items,
      documents, qdrant, points, enable_caching, rerank_enabled,
      entities, entity_by_name, relationships, relationships_by_entity,
      user_preferences>>

\* C37: generate_context is read-only on the tiers' stores: a call leaves
\* Tier 1's turns, key_points and current_tokens, Tier 2's memories and
\* counter, Tier 3's documents, and Tier 4's entities, relationships and
\* preferences as they were, whether it returns or raises; it changes only
\* the orchestrator's statistics and Tier 3's query cache and retrieval
\* counter.
C37_GenerateContextReadsOnly ==
    [][(\E q \in ContextQueries, m \in ContextMaxTokens : GenerateContext(q, m))
            => TierStores' = TierStores]_vars

\* C37 witness: generate_context returned contributions of all four tiers,
\* each of which holds something, and the query cache gained an entry.
C37_Witness ==
    /\ generated # <<>>
    /\ generated[1].raised = ""
    /\ DOMAIN generated[1].contexts = {"tier1", "tier2", "tier3", "tier4"}
    /\ messages # <<>> /\ compressed_memories # <<>> /\ documents # <<>>
    /\ entities # <<>> /\ user_preferences # EmptyMap
    /\ generated[1].after.cache # generated[1].before.cache
    /\ generated[1].after.total_retrievals > generated[1].before.total_retrievals

====
